---- MODULE Spec2Model ----
(***************************************************************************)
(* Verification model of silacode/vm_translator: the VM-to-Hack translator.*)
(*                                                                         *)
(* Emitted assembly is a sequence of lines.  A line is a record:           *)
(*   [op |-> "A", sym |-> s]   the line "@s" with a symbolic operand       *)
(*   [op |-> "A", num |-> n]   the line "@n" with a decimal operand        *)
(*   [op |-> "C", text |-> t]  the compute line t, verbatim ("AM=M-1")     *)
(*   [op |-> "L", sym |-> s]   the label definition "(s)"                  *)
(*   [op |-> "//", text |-> t] the comment line t                          *)
(* Blank lines and indentation, which the assembler ignores, are dropped.  *)
(***************************************************************************)
EXTENDS Integers, Sequences, FiniteSets, TLC

VARIABLES
    cw,      \* the CodeWriter object of code_writer.py
    log,     \* the emission calls made on cw so far, with the lines each wrote
    mw,      \* main.py: the CodeWriter object(s) of a run
    drv,     \* main.py: the position of main() in its run
    ex,      \* execution of emitted code on the target machine
    ps       \* parser.py: the Parser object

vars == <<cw, log, mw, drv, ex, ps>>

(***************************************************************************)
(* Bounds of the model.                                                    *)
(***************************************************************************)
MaxCalls == 3        \* emission calls made on one CodeWriter
MaxIndex == 1        \* largest segment index / argument count drawn
Spread == 1          \* sampled words lie within Spread of 0, of -1 and of the sign change
MaxStack == 2        \* values on the stack when the executed code starts
MaxLocals == 2       \* local variables of a called function
Fuel == 400          \* instructions executed before a run is given up
MaxUuid == 4         \* distinct uuid values one process can draw
MaxLines == 2        \* lines of a file given to the Parser of parser.py
MaxRunCalls == 2     \* calls given to each of two runs that are compared

(***************************************************************************)
(* Lines of assembly text.                                                 *)
(***************************************************************************)
At(s) == [op |-> "A", sym |-> s]
AtN(n) == [op |-> "A", num |-> n]
Cx(t) == [op |-> "C", text |-> t]
Lbl(s) == [op |-> "L", sym |-> s]
Rem(t) == [op |-> "//", text |-> t]

(***************************************************************************)
(* constants.py                                                            *)
(***************************************************************************)
C_ARITHMETIC == "c_arithmetic"
C_PUSH == "c_push"
C_POP == "c_pop"
C_LABEL == "c_label"
C_GOTO == "c_goto"
C_IF == "c_if"
C_FUNCTION == "c_function"
C_RETURN == "c_return"
C_CALL == "c_call"
None == "None"

CommandType ==
    {C_ARITHMETIC, C_PUSH, C_POP, C_LABEL, C_GOTO, C_IF, C_FUNCTION, C_RETURN, C_CALL}

ARITHMETIC_COMMANDS == {"add", "sub", "neg", "eq", "gt", "lt", "and", "or", "not"}

COMMAND_TYPE_MAP ==
    [c \in {"push", "pop", "label", "goto", "if-goto", "function", "return", "call"} |->
        CASE c = "push" -> C_PUSH
          [] c = "pop" -> C_POP
          [] c = "label" -> C_LABEL
          [] c = "goto" -> C_GOTO
          [] c = "if-goto" -> C_IF
          [] c = "function" -> C_FUNCTION
          [] c = "return" -> C_RETURN
          [] c = "call" -> C_CALL]

BASE_SEGMENTS == {"local", "argument", "this", "that"}

SEGMENT_MAP ==
    [s \in {"local", "argument", "this", "that", "constant", "static", "pointer", "temp"} |->
        CASE s = "local" -> "LCL"
          [] s = "argument" -> "ARG"
          [] s = "this" -> "THIS"
          [] s = "that" -> "THAT"
          [] s = "constant" -> "CONSTANT"
          [] s = "static" -> "static"
          [] s = "pointer" -> "pointer"
          [] s = "temp" -> "5"]

\* The comparison templates, with {0} formatted as the decimal text of k.
CompareTemplate(jump, k) ==
    << At("SP"), Cx("AM=M-1"), Cx("D=M"), Cx("A=A-1"), Cx("D=M-D"),
       At("JUMP_" \o ToString(k)), Cx(jump),
       At("SP"), Cx("A=M-1"), Cx("M=0"),
       At("CONTINUE_" \o ToString(k)), Cx("0;JMP"),
       Lbl("JUMP_" \o ToString(k)),
       At("SP"), Cx("A=M-1"), Cx("M=-1"),
       Lbl("CONTINUE_" \o ToString(k)) >>

\* ARITHMETIC_TEMPLATES with the template of add under the key sub as well.
ARITHMETIC_TEMPLATES_SubAsAdd(command, k) ==
    CASE command \in {"add", "sub"} ->
             << At("SP"), Cx("AM=M-1"), Cx("D=M"), Cx("A=A-1"), Cx("M=D+M") >>
      [] command = "neg" -> << At("SP"), Cx("A=M-1"), Cx("M=-M") >>
      [] command = "eq" -> CompareTemplate("D;JEQ", k)
      [] command = "gt" -> CompareTemplate("D;JGT", k)
      [] command = "lt" -> CompareTemplate("D;JLT", k)
      [] command = "and" -> << At("SP"), Cx("AM=M-1"), Cx("D=M"), Cx("A=A-1"), Cx("M=D&M") >>
      [] command = "or" -> << At("SP"), Cx("AM=M-1"), Cx("D=M"), Cx("A=A-1"), Cx("M=D|M") >>
      [] command = "not" -> << At("SP"), Cx("A=M-1"), Cx("M=!M") >>

\* ARITHMETIC_TEMPLATES[command].format(k); k is ignored by the six
\* templates without a {0} placeholder.
ARITHMETIC_TEMPLATES(command, k) ==
    CASE command = "add" -> << At("SP"), Cx("AM=M-1"), Cx("D=M"), Cx("A=A-1"), Cx("M=D+M") >>
      [] command = "sub" -> << At("SP"), Cx("AM=M-1"), Cx("D=M"), Cx("A=A-1"), Cx("M=M-D") >>
      [] command = "neg" -> << At("SP"), Cx("A=M-1"), Cx("M=-M") >>
      [] command = "eq" -> CompareTemplate("D;JEQ", k)
      [] command = "gt" -> CompareTemplate("D;JGT", k)
      [] command = "lt" -> CompareTemplate("D;JLT", k)
      [] command = "and" -> << At("SP"), Cx("AM=M-1"), Cx("D=M"), Cx("A=A-1"), Cx("M=D&M") >>
      [] command = "or" -> << At("SP"), Cx("AM=M-1"), Cx("D=M"), Cx("A=A-1"), Cx("M=D|M") >>
      [] command = "not" -> << At("SP"), Cx("A=M-1"), Cx("M=!M") >>

BOOTSTRAP_CODE == << AtN(256), Cx("D=A"), At("SP"), Cx("M=D") >>

\* PUSH_BASE_SEGMENTS_TEMPLATE that reads the cell at the base, whatever the index.
PUSH_BASE_SEGMENTS_TEMPLATE_NoIndex(index, base) ==
    << AtN(index), Cx("D=A"), At(base), Cx("A=M"), Cx("D=M"),
       At("SP"), Cx("A=M"), Cx("M=D"), At("SP"), Cx("M=M+1") >>

PUSH_BASE_SEGMENTS_TEMPLATE(index, base) ==
    << AtN(index), Cx("D=A"), At(base), Cx("A=D+M"), Cx("D=M"),
       At("SP"), Cx("A=M"), Cx("M=D"), At("SP"), Cx("M=M+1") >>

POP_BASE_SEGMENTS_TEMPLATE(index, base) ==
    << AtN(index), Cx("D=A"), At(base), Cx("D=D+M"), At("R13"), Cx("M=D"),
       At("SP"), Cx("AM=M-1"), Cx("D=M"), At("R13"), Cx("A=M"), Cx("M=D") >>

\* PUSH_TEMPLATE that increments SP before it stores the value.
PUSH_TEMPLATE_IncrementFirst == << At("SP"), Cx("M=M+1"), Cx("A=M"), Cx("M=D") >>

PUSH_TEMPLATE == << At("SP"), Cx("A=M"), Cx("M=D"), At("SP"), Cx("M=M+1") >>

\* POP_TEMPLATE that reads the cell SP points to before it decrements SP.
POP_TEMPLATE_ReadFirst == << At("SP"), Cx("A=M"), Cx("D=M"), At("SP"), Cx("AM=M-1") >>

POP_TEMPLATE == << At("SP"), Cx("AM=M-1"), Cx("D=M") >>

(***************************************************************************)
(* code_writer.py: class CodeWriter.  A method is an operator from the     *)
(* object (and the arguments) to the object after the call.                *)
(***************************************************************************)

\* pathlib's PurePath.stem.  A file name is the sequence of its
\* dot-separated parts: "A.b.vm" is <<"A", "b", "vm">>.
RECURSIVE JoinDots(_)
JoinDots(parts) ==
    IF Len(parts) = 0 THEN ""
    ELSE IF Len(parts) = 1 THEN parts[1]
    ELSE parts[1] \o "." \o JoinDots(Tail(parts))

\* The last dot starts a suffix unless it is the first or the last character.
stem(name) ==
    IF Len(name) < 2 THEN JoinDots(name)
    ELSE IF name[Len(name)] = "" THEN JoinDots(name)
    ELSE IF JoinDots(SubSeq(name, 1, Len(name) - 1)) = "" THEN JoinDots(name)
    ELSE JoinDots(SubSeq(name, 1, Len(name) - 1))

CodeWriter_init ==
    [file |-> None, text |-> <<>>, label_counter |-> 0, current_file |-> "", function_name |-> ""]

\* __enter__: opening with mode "w" truncates the output.
CodeWriter_enter(self) == [self EXCEPT !.file = "open", !.text = <<>>]

\* set_filename starting the numbering of labels again for the new unit.
set_filename_Reset(self, filename) ==
    [self EXCEPT !.current_file = stem(filename), !.label_counter = 0]

set_filename(self, filename) == [self EXCEPT !.current_file = stem(filename)]

_write(self, lines) ==
    IF self.file # None THEN [self EXCEPT !.text = @ \o lines] ELSE self

writer_arithmetic(self, command) ==
    IF command \in {"eq", "gt", "lt"}
    THEN LET counted == [self EXCEPT !.label_counter = @ + 1]
         IN  _write(counted, << Rem("//" \o command) >>
                             \o ARITHMETIC_TEMPLATES(command, counted.label_counter))
    ELSE _write(self, << Rem("//" \o command) >> \o ARITHMETIC_TEMPLATES(command, 0))

_handle_push(self, segment, index) ==
    IF segment = "constant"
    THEN _write(self, << Rem("// push constant " \o ToString(index)), AtN(index), Cx("D=A") >>
                      \o PUSH_TEMPLATE)
    ELSE IF segment = "static"
    THEN _write(self, << Rem("// push static " \o ToString(index)),
                         At(self.current_file \o "." \o ToString(index)), Cx("D=M") >>
                      \o PUSH_TEMPLATE)
    ELSE IF segment \in BASE_SEGMENTS
    THEN _write(self, PUSH_BASE_SEGMENTS_TEMPLATE(index, SEGMENT_MAP[segment]))
    ELSE IF segment = "temp"
    THEN _write(self, << Rem("// push temp " \o ToString(index)), AtN(5 + index), Cx("D=M") >>
                      \o PUSH_TEMPLATE)
    ELSE IF segment = "pointer"
    THEN _write(self, << Rem("// push pointer " \o ToString(index)),
                         At(IF index = 0 THEN "THIS" ELSE "THAT"), Cx("D=M") >>
                      \o PUSH_TEMPLATE)
    ELSE self

\* _handle_pop naming a static variable by the segment, not by the module.
_handle_pop_SegmentName(self, segment, index) ==
    IF segment = "static"
    THEN _write(self, << Rem("// pop static " \o ToString(index)) >> \o POP_TEMPLATE
                      \o << At(SEGMENT_MAP[segment] \o "." \o ToString(index)), Cx("M=D") >>)
    ELSE IF segment \in BASE_SEGMENTS
    THEN _write(self, POP_BASE_SEGMENTS_TEMPLATE(index, SEGMENT_MAP[segment]))
    ELSE IF segment = "temp"
    THEN _write(self, << Rem("// pop temp " \o ToString(index)) >> \o POP_TEMPLATE
                      \o << AtN(5 + index), Cx("M=D") >>)
    ELSE IF segment = "pointer"
    THEN _write(self, << Rem("// pop pointer " \o ToString(index)) >> \o POP_TEMPLATE
                      \o << At(IF index = 0 THEN "THIS" ELSE "THAT"), Cx("M=D") >>)
    ELSE self

_handle_pop(self, segment, index) ==
    IF segment = "static"
    THEN _write(self, << Rem("// pop static " \o ToString(index)) >> \o POP_TEMPLATE
                      \o << At(self.current_file \o "." \o ToString(index)), Cx("M=D") >>)
    ELSE IF segment \in BASE_SEGMENTS
    THEN _write(self, POP_BASE_SEGMENTS_TEMPLATE(index, SEGMENT_MAP[segment]))
    ELSE IF segment = "temp"
    THEN _write(self, << Rem("// pop temp " \o ToString(index)) >> \o POP_TEMPLATE
                      \o << AtN(5 + index), Cx("M=D") >>)
    ELSE IF segment = "pointer"
    THEN _write(self, << Rem("// pop pointer " \o ToString(index)) >> \o POP_TEMPLATE
                      \o << At(IF index = 0 THEN "THIS" ELSE "THAT"), Cx("M=D") >>)
    ELSE self

write_push_pop(self, command, segment, index) ==
    IF command = C_PUSH THEN _handle_push(self, segment, index)
    ELSE _handle_pop(self, segment, index)

write_label(self, label) ==
    _write(self, << Lbl(self.function_name \o "$" \o label) >>)

\* write_goto jumping to the bare label text.
write_goto_Unscoped(self, label) ==
    _write(self, << Rem("// goto " \o label), At(label), Cx("0;JMP") >>)

write_goto(self, label) ==
    _write(self, << Rem("// goto " \o label),
                    At(self.function_name \o "$" \o label), Cx("0;JMP") >>)

write_if(self, label) ==
    _write(self, << Rem("// if-goto " \o label) >> \o POP_TEMPLATE
                 \o << At(self.function_name \o "$" \o label), Cx("D;JNE") >>)

\* for _ in range(n_vars): self.write_push_pop(CommandType.C_PUSH, "constant", 0)
\* The loop of write_function running once more than n_vars.
RECURSIVE PushZeros_OneMore(_, _)
PushZeros_OneMore(self, n_vars) ==
    IF n_vars < 0 THEN self
    ELSE PushZeros_OneMore(write_push_pop(self, C_PUSH, "constant", 0), n_vars - 1)

RECURSIVE PushZeros(_, _)
PushZeros(self, n_vars) ==
    IF n_vars <= 0 THEN self
    ELSE PushZeros(write_push_pop(self, C_PUSH, "constant", 0), n_vars - 1)

\* write_function that leaves function_name as it was.
write_function_NameKept(self, fn_name, n_vars) ==
    PushZeros(_write(self, << Lbl(fn_name) >>), n_vars)

write_function(self, fn_name, n_vars) ==
    PushZeros(_write([self EXCEPT !.function_name = fn_name], << Lbl(fn_name) >>), n_vars)

\* write_call without the increment of label_counter.
write_call_NoIncrement(self, fn_name, n_args) ==
    LET return_label == "RETURN_" \o fn_name \o "_" \o ToString(self.label_counter)
    IN  _write(self,
            << Rem("// call " \o fn_name \o " " \o ToString(n_args)),
               At(return_label), Cx("D=A") >> \o PUSH_TEMPLATE
            \o << At("LCL"), Cx("D=M") >> \o PUSH_TEMPLATE
            \o << At("ARG"), Cx("D=M") >> \o PUSH_TEMPLATE
            \o << At("THIS"), Cx("D=M") >> \o PUSH_TEMPLATE
            \o << At("THAT"), Cx("D=M") >> \o PUSH_TEMPLATE
            \o << At("SP"), Cx("D=M"), AtN(5), Cx("D=D-A"), AtN(n_args), Cx("D=D-A"),
                  At("ARG"), Cx("M=D"),
                  At("SP"), Cx("D=M"), At("LCL"), Cx("M=D"),
                  At(fn_name), Cx("0;JMP"),
                  Lbl(return_label) >>)

write_call(self, fn_name, n_args) ==
    LET return_label == "RETURN_" \o fn_name \o "_" \o ToString(self.label_counter)
        counted == [self EXCEPT !.label_counter = @ + 1]
    IN  _write(counted,
            << Rem("// call " \o fn_name \o " " \o ToString(n_args)),
               At(return_label), Cx("D=A") >> \o PUSH_TEMPLATE
            \o << At("LCL"), Cx("D=M") >> \o PUSH_TEMPLATE
            \o << At("ARG"), Cx("D=M") >> \o PUSH_TEMPLATE
            \o << At("THIS"), Cx("D=M") >> \o PUSH_TEMPLATE
            \o << At("THAT"), Cx("D=M") >> \o PUSH_TEMPLATE
            \o << At("SP"), Cx("D=M"), AtN(5), Cx("D=D-A"), AtN(n_args), Cx("D=D-A"),
                  At("ARG"), Cx("M=D"),
                  At("SP"), Cx("D=M"), At("LCL"), Cx("M=D"),
                  At(fn_name), Cx("0;JMP"),
                  Lbl(return_label) >>)

\* write_return reading the return address only after the return value
\* was stored at ARG.
write_return_LateAddress(self) ==
    _write(self,
        << Rem("// return"),
           At("LCL"), Cx("D=M"), At("R14"), Cx("M=D") >>
        \o POP_TEMPLATE
        \o << At("ARG"), Cx("A=M"), Cx("M=D"), Cx("D=A+1"), At("SP"), Cx("M=D"),
              At("R14"), Cx("D=M"), AtN(5), Cx("A=D-A"), Cx("D=M"), At("R15"), Cx("M=D"),
              At("R14"), Cx("AM=M-1"), Cx("D=M"), At("THAT"), Cx("M=D"),
              At("R14"), Cx("AM=M-1"), Cx("D=M"), At("THIS"), Cx("M=D"),
              At("R14"), Cx("AM=M-1"), Cx("D=M"), At("ARG"), Cx("M=D"),
              At("R14"), Cx("AM=M-1"), Cx("D=M"), At("LCL"), Cx("M=D"),
              At("R15"), Cx("A=M"), Cx("0;JMP") >>)

write_return(self) ==
    _write(self,
        << Rem("// return"),
           At("LCL"), Cx("D=M"), At("R14"), Cx("M=D"),
           AtN(5), Cx("A=D-A"), Cx("D=M"), At("R15"), Cx("M=D") >>
        \o POP_TEMPLATE
        \o << At("ARG"), Cx("A=M"), Cx("M=D"), Cx("D=A+1"), At("SP"), Cx("M=D"),
              At("R14"), Cx("AM=M-1"), Cx("D=M"), At("THAT"), Cx("M=D"),
              At("R14"), Cx("AM=M-1"), Cx("D=M"), At("THIS"), Cx("M=D"),
              At("R14"), Cx("AM=M-1"), Cx("D=M"), At("ARG"), Cx("M=D"),
              At("R14"), Cx("AM=M-1"), Cx("D=M"), At("LCL"), Cx("M=D"),
              At("R15"), Cx("A=M"), Cx("0;JMP") >>)

write_init(self) == write_call(_write(self, BOOTSTRAP_CODE), "Sys.init", 0)

(***************************************************************************)
(* The CodeWriter of code_writer.py under an arbitrary caller: the object  *)
(* of "with CodeWriter(path) as w", then set_filename at any time and at   *)
(* most MaxCalls emission calls.  log records each emission call: its      *)
(* arguments, the fields of the object that the method reads, as they were *)
(* at the call, and the range lo..hi of the lines of w.text it wrote.      *)
(***************************************************************************)
Files == { <<"A", "vm">>, <<"B", "vm">> }
Labels == {"LOOP"}
ArithmeticCalls == {"neg", "eq", "lt"}
PushPopCalls ==
    { <<C_PUSH, "static", 0>>, <<C_POP, "static", 0>>, <<C_POP, "static", MaxIndex>>,
      <<C_PUSH, "constant", MaxIndex>> }
FunctionCalls == { <<"A.f", 0>>, <<"B.g", MaxIndex>> }
CallCalls == { <<"A.f", MaxIndex>>, <<"B.g", 0>> }

Idle == [at |-> "idle"]

Called(new, call) ==
    /\ Len(log) < MaxCalls
    /\ cw' = new
    /\ log' = Append(log, call @@ [lo |-> Len(cw.text) + 1, hi |-> Len(new.text)])
    /\ UNCHANGED <<mw, drv, ex, ps>>

SetFilename ==
    \E f \in Files :
        /\ cw' = set_filename(cw, f)
        /\ UNCHANGED <<log, mw, drv, ex, ps>>

WriteInit ==
    Called(write_init(cw), [m |-> "write_init", label_counter |-> cw.label_counter])

WriterArithmetic ==
    \E c \in ArithmeticCalls :
        Called(writer_arithmetic(cw, c),
               [m |-> "writer_arithmetic", command |-> c, label_counter |-> cw.label_counter])

WritePushPop ==
    \E c \in PushPopCalls :
        Called(write_push_pop(cw, c[1], c[2], c[3]),
               [m |-> "write_push_pop", command |-> c[1], segment |-> c[2], index |-> c[3],
                current_file |-> IF c[2] = "static" THEN cw.current_file ELSE None])

WriteLabel ==
    \E l \in Labels : Called(write_label(cw, l), [m |-> "write_label", label |-> l, function_name |-> cw.function_name])

WriteGoto ==
    \E l \in Labels : Called(write_goto(cw, l), [m |-> "write_goto", label |-> l, function_name |-> cw.function_name])

WriteIf ==
    \E l \in Labels : Called(write_if(cw, l), [m |-> "write_if", label |-> l, function_name |-> cw.function_name])

WriteFunction ==
    \E c \in FunctionCalls :
        Called(write_function(cw, c[1], c[2]),
               [m |-> "write_function", fn_name |-> c[1], n_vars |-> c[2]])

WriteCall ==
    \E c \in CallCalls :
        Called(write_call(cw, c[1], c[2]),
               [m |-> "write_call", fn_name |-> c[1], n_args |-> c[2],
                label_counter |-> cw.label_counter])

WriteReturn == Called(write_return(cw), [m |-> "write_return"])

Init ==
    /\ cw = CodeWriter_enter(CodeWriter_init)
    /\ log = <<>>
    /\ mw = Idle
    /\ drv = Idle
    /\ ex = Idle
    /\ ps = Idle

Next ==
    \/ SetFilename
    \/ WriteInit
    \/ WriterArithmetic
    \/ WritePushPop
    \/ WriteLabel
    \/ WriteGoto
    \/ WriteIf
    \/ WriteFunction
    \/ WriteCall
    \/ WriteReturn

Spec == Init /\ [][Next]_vars

(***************************************************************************)
(* Properties of the text written by the CodeWriter of code_writer.py.     *)
(***************************************************************************)
\* The line numbers of cw.text written by the call e of log.
Written(e) == e.lo .. e.hi

\* The symbols that the lines written by e load with "@", SP aside.
Loaded(e) ==
    {cw.text[i].sym : i \in {j \in Written(e) :
        /\ cw.text[j].op = "A"
        /\ "sym" \in DOMAIN cw.text[j]
        /\ cw.text[j].sym # "SP"}}

\* The symbols that the lines written by e define as labels.
Defined(e) == {cw.text[i].sym : i \in {j \in Written(e) : cw.text[j].op = "L"}}

Entries == {log[i] : i \in DOMAIN log}

\* The lines of cw.text that define a label of a comparison or of a call.
GeneratedDefinitions ==
    {i \in DOMAIN cw.text :
        /\ cw.text[i].op = "L"
        /\ \E e \in Entries :
            /\ e.m \in {"writer_arithmetic", "write_call", "write_init"}
            /\ i \in Written(e)}

\* C2: over any sequence of calls on one CodeWriter, with set_filename in
\* between, no two label definitions written for comparisons (JUMP_k,
\* CONTINUE_k) and for calls (RETURN_<callee>_k) have the same text.
C2_LabelUniqueness ==
    \A i, j \in GeneratedDefinitions : i # j => cw.text[i].sym # cw.text[j].sym

\* Two calls of the same callee with a comparison between them, in a run
\* that changed module.
C2_Witness ==
    /\ Len(log) = 3
    /\ log[1].m = "write_call"
    /\ log[2].m = "writer_arithmetic"
    /\ log[2].command = "eq"
    /\ log[3].m = "write_call"
    /\ log[3].fn_name = log[1].fn_name
    /\ cw.current_file = "B"
    /\ Cardinality(GeneratedDefinitions) = 4

StaticEntries == {e \in Entries : e.m = "write_push_pop" /\ e.segment = "static"}

FlowEntries == {e \in Entries : e.m \in {"write_label", "write_goto", "write_if"}}

\* The symbol a label, goto or if-goto call refers to.
Target(e) == IF e.m = "write_label" THEN Defined(e) ELSE Loaded(e)

\* The name given by the last write_function among the first n calls of log.
RECURSIVE Declared(_)
Declared(n) ==
    IF n = 0 THEN ""
    ELSE IF log[n].m = "write_function" THEN log[n].fn_name
    ELSE Declared(n - 1)

\* C9: label L, goto L and if-goto L called while the current function is f
\* all refer to the symbol f$L, f being the function declared last; so a
\* goto in f targets the label defined in f, and the same L in functions of
\* different names gives different symbols.
C9_LabelScoping ==
    /\ \A i \in DOMAIN log :
           log[i] \in FlowEntries =>
               /\ log[i].function_name = Declared(i - 1)
               /\ Target(log[i]) = {log[i].function_name \o "$" \o log[i].label}
    /\ \A e1, e2 \in FlowEntries :
           /\ (e1.function_name = e2.function_name /\ e1.label = e2.label)
                  => Target(e1) = Target(e2)
           /\ (e1.function_name # e2.function_name /\ e1.label = e2.label)
                  => Target(e1) \cap Target(e2) = {}

\* A goto before any declaration, then function A.f, then label LOOP in it.
C9_Witness ==
    /\ Len(log) = 3
    /\ log[1].m = "write_goto"
    /\ log[2].m = "write_function"
    /\ log[3].m = "write_label"
    /\ Target(log[1]) = {"$LOOP"}
    /\ Target(log[3]) = {"A.f$LOOP"}

(***************************************************************************)
(* The target machine: 16-bit words, registers A and D, the RAM, and the   *)
(* assembler's symbol resolution.  Words are kept as 0 .. 2^16 - 1; the    *)
(* jump conditions read them in two's complement.                          *)
(***************************************************************************)
WordSize == 65536

Wrap(n) == n % WordSize

Signed(w) == IF w >= WordSize \div 2 THEN w - WordSize ELSE w

RECURSIVE BitAnd(_, _, _)
BitAnd(x, y, bits) ==
    IF bits = 0 THEN 0
    ELSE (IF x % 2 = 1 /\ y % 2 = 1 THEN 1 ELSE 0) + 2 * BitAnd(x \div 2, y \div 2, bits - 1)

RECURSIVE BitOr(_, _, _)
BitOr(x, y, bits) ==
    IF bits = 0 THEN 0
    ELSE (IF x % 2 = 1 \/ y % 2 = 1 THEN 1 ELSE 0) + 2 * BitOr(x \div 2, y \div 2, bits - 1)

\* The compute lines the translator emits: destination registers,
\* computation and jump condition of each.
Decode(text) ==
    CASE text = "AM=M-1" -> [dest |-> {"A", "M"}, comp |-> "M-1", jump |-> ""]
      [] text = "DM=M-1" -> [dest |-> {"D", "M"}, comp |-> "M-1", jump |-> ""]
      [] text = "AD=D-A" -> [dest |-> {"A", "D"}, comp |-> "D-A", jump |-> ""]
      [] text = "A=A-1" -> [dest |-> {"A"}, comp |-> "A-1", jump |-> ""]
      [] text = "A=M-1" -> [dest |-> {"A"}, comp |-> "M-1", jump |-> ""]
      [] text = "A=M" -> [dest |-> {"A"}, comp |-> "M", jump |-> ""]
      [] text = "A=D" -> [dest |-> {"A"}, comp |-> "D", jump |-> ""]
      [] text = "A=D+M" -> [dest |-> {"A"}, comp |-> "D+M", jump |-> ""]
      [] text = "A=D+A" -> [dest |-> {"A"}, comp |-> "D+A", jump |-> ""]
      [] text = "A=D-A" -> [dest |-> {"A"}, comp |-> "D-A", jump |-> ""]
      [] text = "D=M" -> [dest |-> {"D"}, comp |-> "M", jump |-> ""]
      [] text = "D=A" -> [dest |-> {"D"}, comp |-> "A", jump |-> ""]
      [] text = "D=M-D" -> [dest |-> {"D"}, comp |-> "M-D", jump |-> ""]
      [] text = "D=D+M" -> [dest |-> {"D"}, comp |-> "D+M", jump |-> ""]
      [] text = "D=D+A" -> [dest |-> {"D"}, comp |-> "D+A", jump |-> ""]
      [] text = "D=D-A" -> [dest |-> {"D"}, comp |-> "D-A", jump |-> ""]
      [] text = "D=A+1" -> [dest |-> {"D"}, comp |-> "A+1", jump |-> ""]
      [] text = "D=M+1" -> [dest |-> {"D"}, comp |-> "M+1", jump |-> ""]
      [] text = "M=D" -> [dest |-> {"M"}, comp |-> "D", jump |-> ""]
      [] text = "M=0" -> [dest |-> {"M"}, comp |-> "0", jump |-> ""]
      [] text = "M=-1" -> [dest |-> {"M"}, comp |-> "-1", jump |-> ""]
      [] text = "M=-M" -> [dest |-> {"M"}, comp |-> "-M", jump |-> ""]
      [] text = "M=!M" -> [dest |-> {"M"}, comp |-> "!M", jump |-> ""]
      [] text = "M=D+M" -> [dest |-> {"M"}, comp |-> "D+M", jump |-> ""]
      [] text = "M=M-D" -> [dest |-> {"M"}, comp |-> "M-D", jump |-> ""]
      [] text = "M=D&M" -> [dest |-> {"M"}, comp |-> "D&M", jump |-> ""]
      [] text = "M=D|M" -> [dest |-> {"M"}, comp |-> "D|M", jump |-> ""]
      [] text = "M=M+1" -> [dest |-> {"M"}, comp |-> "M+1", jump |-> ""]
      [] text = "D;JEQ" -> [dest |-> {}, comp |-> "D", jump |-> "JEQ"]
      [] text = "D;JGT" -> [dest |-> {}, comp |-> "D", jump |-> "JGT"]
      [] text = "D;JLT" -> [dest |-> {}, comp |-> "D", jump |-> "JLT"]
      [] text = "D;JNE" -> [dest |-> {}, comp |-> "D", jump |-> "JNE"]
      [] text = "0;JMP" -> [dest |-> {}, comp |-> "0", jump |-> "JMP"]

Alu(comp, a, d, m) ==
    CASE comp = "0" -> 0
      [] comp = "-1" -> WordSize - 1
      [] comp = "D" -> d
      [] comp = "A" -> a
      [] comp = "M" -> m
      [] comp = "-M" -> Wrap(WordSize - m)
      [] comp = "!M" -> WordSize - 1 - m
      [] comp = "A-1" -> Wrap(a + WordSize - 1)
      [] comp = "M-1" -> Wrap(m + WordSize - 1)
      [] comp = "A+1" -> Wrap(a + 1)
      [] comp = "M+1" -> Wrap(m + 1)
      [] comp = "D+M" -> Wrap(d + m)
      [] comp = "D+A" -> Wrap(d + a)
      [] comp = "M-D" -> Wrap(m + WordSize - d)
      [] comp = "D-A" -> Wrap(d + WordSize - a)
      [] comp = "D&M" -> BitAnd(d, m, 16)
      [] comp = "D|M" -> BitOr(d, m, 16)

Jumps(jump, out) ==
    CASE jump = "" -> FALSE
      [] jump = "JMP" -> TRUE
      [] jump = "JEQ" -> out = 0
      [] jump = "JNE" -> out # 0
      [] jump = "JGT" -> Signed(out) > 0
      [] jump = "JLT" -> Signed(out) < 0

\* The RAM is kept for the cells that were set; every other cell reads 0.
Peek(ram, a) == IF a \in DOMAIN ram THEN ram[a] ELSE 0

Poke(ram, a, v) == IF a \in DOMAIN ram THEN [ram EXCEPT ![a] = v] ELSE ram @@ (a :> v)

Predefined ==
    [s \in {"SP", "LCL", "ARG", "THIS", "THAT", "R13", "R14", "R15"} |->
        CASE s = "SP" -> 0
          [] s = "LCL" -> 1
          [] s = "ARG" -> 2
          [] s = "THIS" -> 3
          [] s = "THAT" -> 4
          [] s = "R13" -> 13
          [] s = "R14" -> 14
          [] s = "R15" -> 15]

IsCode(line) == line.op \in {"A", "C"}

\* The least of a set of line numbers; 0 when there is none.
First(lines) ==
    IF lines = {} THEN 0 ELSE CHOOSE i \in lines : \A j \in lines : i <= j

\* Whether line loads a variable of text: a symbol that is neither
\* predefined nor defined as a label.
IsVariable(text, line) ==
    /\ line.op = "A"
    /\ "sym" \in DOMAIN line
    /\ line.sym \notin DOMAIN Predefined
    /\ \A j \in DOMAIN text : text[j] # Lbl(line.sym)

\* The address a symbol stands for in text: a predefined register, the
\* instruction that follows its label definition, or else a variable,
\* allocated from 16 upwards in order of first use.
SymbolValue(text, s) ==
    LET def == First({i \in DOMAIN text : text[i] = Lbl(s)})
        use == First({i \in DOMAIN text : text[i] = At(s)})
    IN  IF s \in DOMAIN Predefined THEN Predefined[s]
        ELSE IF def # 0 THEN Cardinality({j \in 1 .. def : IsCode(text[j])})
        ELSE 16 + Cardinality({text[j].sym : j \in {k \in 1 .. (use - 1) : IsVariable(text, text[k])}})

\* The instruction memory: the code lines of text, symbols resolved.
Assemble(text) ==
    LET code == SelectSeq(text, IsCode)
    IN  [i \in DOMAIN code |->
            IF code[i].op = "A" /\ "sym" \in DOMAIN code[i]
            THEN AtN(SymbolValue(text, code[i].sym))
            ELSE code[i]]

\* One instruction of rom executed on the machine m = [A, D, PC, RAM].
Step(rom, m) ==
    LET line == rom[m.PC + 1]
    IN  IF line.op = "A"
        THEN [m EXCEPT !.A = line.num, !.PC = @ + 1]
        ELSE LET ins == Decode(line.text)
                 out == Alu(ins.comp, m.A, m.D, Peek(m.RAM, m.A))
             IN  [A |-> IF "A" \in ins.dest THEN out ELSE m.A,
                  D |-> IF "D" \in ins.dest THEN out ELSE m.D,
                  PC |-> IF Jumps(ins.jump, out) THEN m.A ELSE m.PC + 1,
                  RAM |-> IF "M" \in ins.dest THEN Poke(m.RAM, m.A, out) ELSE m.RAM]

\* The machine is halted when the program counter is at stop or has left
\* the program; otherwise the next instruction is executed.
Advance(rom, m, stop) ==
    IF m.PC = stop \/ m.PC >= Len(rom) THEN m ELSE Step(rom, m)

\* The machine after running rom from m until it halts or fuel instructions
\* were executed (four instructions at a time).
RECURSIVE Run(_, _, _, _)
Run(rom, m, stop, fuel) ==
    IF fuel <= 0 \/ m.PC = stop \/ m.PC >= Len(rom) THEN m
    ELSE Run(rom,
             Advance(rom, Advance(rom, Advance(rom, Advance(rom, m, stop), stop), stop), stop),
             stop, fuel - 4)

(***************************************************************************)
(* Execution of emitted code.  A run starts on a machine whose stack holds *)
(* up to MaxStack sampled words, emits a short VM program through a fresh  *)
(* CodeWriter, assembles the text and executes it.                         *)
(***************************************************************************)
Samples ==
    (0 .. Spread) \cup ((WordSize \div 2 - 1 - Spread) .. (WordSize \div 2 + Spread))
        \cup ((WordSize - Spread) .. (WordSize - 1))

Stacks == UNION { [1 .. n -> Samples] : n \in 0 .. MaxStack }

StackBase == 256

\* SP and the four base pointers, the stack, and the first cells of each
\* segment (each holding a value that tells it from the others).
Machine(stack) ==
    [A |-> 0, D |-> 0, PC |-> 0,
     RAM |-> (0 :> StackBase + Len(stack)) @@ (1 :> 300) @@ (2 :> 400) @@ (3 :> 3000)
             @@ (4 :> 3010)
             @@ [a \in StackBase .. (StackBase + Len(stack) - 1) |-> stack[a - StackBase + 1]]
             @@ [a \in 5 .. (5 + MaxIndex) |-> 500 + a]
             @@ [a \in 16 .. (16 + MaxIndex) |-> 600 + a]
             @@ [a \in UNION { b .. (b + MaxIndex) : b \in {300, 400, 3000, 3010} } |-> 700 + a]]

Fresh == set_filename(CodeWriter_enter(CodeWriter_init), <<"A", "vm">>)

\* The machine after executing all of text from m.
Execute(text, m) ==
    LET rom == Assemble(text) IN Run(rom, [m EXCEPT !.PC = 0], Len(rom), Fuel)

Ran(run) ==
    /\ ex.at = "start"
    /\ ex' = run @@ [at |-> "ran", m0 |-> ex.m]
    /\ UNCHANGED <<cw, log, mw, drv, ps>>

Height(m) == Peek(m.RAM, 0) - StackBase

\* One arithmetic command on a stack that holds its operands.
RunArithmetic ==
    \E c \in ARITHMETIC_COMMANDS :
        /\ ex.at = "start"
        /\ Height(ex.m) >= (IF c \in {"neg", "not"} THEN 1 ELSE 2)
        /\ Ran([kind |-> "arithmetic", command |-> c,
                m |-> Execute(writer_arithmetic(Fresh, c).text, ex.m)])

\* push constant x, push constant y, then a binary command.
RunProgram ==
    \E x \in {7}, y \in {8}, c \in {"add", "sub"} :
        LET w1 == write_push_pop(Fresh, C_PUSH, "constant", x)
            w2 == write_push_pop(w1, C_PUSH, "constant", y)
            w3 == writer_arithmetic(w2, c)
        IN  Ran([kind |-> "program", x |-> x, y |-> y, command |-> c,
                 m |-> Execute(w3.text, ex.m)])

\* The body of the called function: it sets THIS and THAT to values of its
\* own and leaves one value on its stack.
Body(w, value) ==
    LET w1 == write_push_pop(w, C_PUSH, "constant", 21)
        w2 == write_push_pop(w1, C_POP, "pointer", 0)
        w3 == write_push_pop(w2, C_PUSH, "constant", 22)
        w4 == write_push_pop(w3, C_POP, "pointer", 1)
    IN  write_push_pop(w4, C_PUSH, "constant", value)

\* call f n with n arguments on the stack; the caller then loops forever at
\* END; function f k, its body and return follow.  The run stops when the
\* program counter reaches the instruction after the code of the call.
RunCallReturn ==
    \E n \in 0 .. MaxStack, k \in 0 .. MaxLocals, value \in {77} :
        /\ ex.at = "start"
        /\ n <= Height(ex.m)
        /\ LET call == write_call(Fresh, "A.f", n)
               loop == write_goto(write_label(call, "END"), "END")
               whole == write_return(Body(write_function(loop, "A.f", k), value))
               rom == Assemble(whole.text)
               resume == Len(SelectSeq(call.text, IsCode))
           IN  Ran([kind |-> "call-return", n_args |-> n, n_vars |-> k, value |-> value,
                    resume |-> resume,
                    m |-> Run(rom, [ex.m EXCEPT !.PC = 0], resume, Fuel)])

\* The code of call A.f n alone, with n arguments on the stack; the caller's
\* loop at END and the entry of A.f follow it.  The run stops when the
\* program counter reaches the entry of A.f.
RunCall ==
    \E n \in 0 .. MaxStack :
        /\ ex.at = "start"
        /\ n <= Height(ex.m)
        /\ LET call == write_call(Fresh, "A.f", n)
               whole == write_function(write_goto(write_label(call, "END"), "END"), "A.f", 0)
               rom == Assemble(whole.text)
               entry == SymbolValue(whole.text, "A.f")
           IN  Ran([kind |-> "call", n_args |-> n, text |-> call.text, entry |-> entry,
                    return_address |-> Len(SelectSeq(call.text, IsCode)),
                    m |-> Run(rom, [ex.m EXCEPT !.PC = 0], entry, Fuel)])

\* The code of function A.f k alone, on a machine whose cells above the
\* stack hold values left there by earlier code.
RunFunction ==
    \E k \in 0 .. MaxLocals :
        /\ ex.at = "start"
        /\ LET top == Peek(ex.m.RAM, 0)
               used == [ex.m EXCEPT !.RAM = @ @@ [a \in top .. (top + MaxLocals) |-> 900 + a]]
               declared == write_function(Fresh, "A.f", k)
           IN  ex' = [at |-> "ran", kind |-> "function", n_vars |-> k, text |-> declared.text,
                      m0 |-> used, m |-> Execute(declared.text, used)]
        /\ UNCHANGED <<cw, log, mw, drv, ps>>

\* The code of one push or pop alone.  A pop has a value to take; pop
\* constant writes no code.  The base register of local, argument, this or
\* that holds its initial value or the address of the bottom of the stack.
RunPushPop ==
    \E command \in {C_PUSH, C_POP}, segment \in DOMAIN SEGMENT_MAP, index \in 0 .. MaxIndex,
       at_stack \in BOOLEAN :
        /\ ex.at = "start"
        /\ command = C_POP => (Height(ex.m) >= 1 /\ segment # "constant")
        /\ at_stack => segment \in BASE_SEGMENTS
        /\ LET based == IF at_stack
                        THEN [ex.m EXCEPT !.RAM[Predefined[SEGMENT_MAP[segment]]] = StackBase]
                        ELSE ex.m
               written == write_push_pop(Fresh, command, segment, index)
           IN  ex' = [at |-> "ran", kind |-> "push-pop", command |-> command,
                      segment |-> segment, index |-> index, text |-> written.text,
                      m0 |-> based, m |-> Execute(written.text, based)]
        /\ UNCHANGED <<cw, log, mw, drv, ps>>

InitExec ==
    /\ cw = Idle
    /\ log = <<>>
    /\ mw = Idle
    /\ drv = Idle
    /\ ex \in { [at |-> "start", m |-> Machine(s)] : s \in Stacks }
    /\ ps = Idle

NextExec ==
    \/ RunArithmetic
    \/ RunProgram
    \/ RunCallReturn
    \/ RunCall
    \/ RunFunction
    \/ RunPushPop

SpecExec == InitExec /\ [][NextExec]_vars

(***************************************************************************)
(* Properties of executed code.                                            *)
(***************************************************************************)
SP0 == Peek(ex.m0.RAM, 0)
SP1 == Peek(ex.m.RAM, 0)

\* Every cell except SP and the cells in keep reads the same before and after.
OthersUnchanged(keep) ==
    \A a \in (DOMAIN ex.m0.RAM \cup DOMAIN ex.m.RAM) \ ({0} \cup keep) :
        Peek(ex.m.RAM, a) = Peek(ex.m0.RAM, a)

Holds(command, a, b) ==
    CASE command = "eq" -> a = b
      [] command = "gt" -> a > b
      [] command = "lt" -> a < b

RanComparison ==
    /\ ex.at = "ran"
    /\ ex.kind = "arithmetic"
    /\ ex.command \in {"eq", "gt", "lt"}

\* C1: after the code of eq, gt or lt, run on a stack holding a then b, the
\* two operands are replaced by one word, all-ones when a op b holds (in
\* two's complement) and 0 otherwise, and SP is one less than before -- for
\* every pair of words, also when a - b overflows.
C1_ComparisonResult ==
    RanComparison =>
        /\ SP1 = SP0 - 1
        /\ Peek(ex.m.RAM, SP0 - 2) =
               (IF Holds(ex.command, Signed(Peek(ex.m0.RAM, SP0 - 2)),
                         Signed(Peek(ex.m0.RAM, SP0 - 1)))
                THEN WordSize - 1 ELSE 0)

\* The bits of a word, and the word of a set of bit positions.
RECURSIVE Power2(_)
Power2(n) == IF n = 0 THEN 1 ELSE 2 * Power2(n - 1)

BitsOf(w) == {i \in 0 .. 15 : (w \div Power2(i)) % 2 = 1}

RECURSIVE WordOf(_)
WordOf(bits) ==
    IF bits = {} THEN 0
    ELSE LET i == CHOOSE b \in bits : TRUE IN Power2(i) + WordOf(bits \ {i})

Result(command, x, y) ==
    CASE command = "add" -> (Signed(x) + Signed(y)) % WordSize
      [] command = "sub" -> (Signed(x) - Signed(y)) % WordSize
      [] command = "and" -> WordOf(BitsOf(x) \cap BitsOf(y))
      [] command = "or" -> WordOf(BitsOf(x) \cup BitsOf(y))
      [] command = "neg" -> (0 - Signed(y)) % WordSize
      [] command = "not" -> WordOf((0 .. 15) \ BitsOf(y))

\* C7: add, sub, and, or replace the top two words x, y by x+y, x-y, x&y,
\* x|y (modulo 2^16) and lower SP by 1; neg and not replace the top word y
\* by -y, !y and leave SP alone; no other cell changes; and push constant 7,
\* push constant 8, add from SP = 256 leaves 15 at 256 and SP = 257.
C7_ArithmeticResult ==
    /\ (ex.at = "ran" /\ ex.kind = "arithmetic" /\ ex.command \in {"add", "sub", "and", "or"}) =>
           /\ SP1 = SP0 - 1
           /\ Peek(ex.m.RAM, SP0 - 2) =
                  Result(ex.command, Peek(ex.m0.RAM, SP0 - 2), Peek(ex.m0.RAM, SP0 - 1))
           /\ OthersUnchanged({SP0 - 2})
    /\ (ex.at = "ran" /\ ex.kind = "arithmetic" /\ ex.command \in {"neg", "not"}) =>
           /\ SP1 = SP0
           /\ Peek(ex.m.RAM, SP0 - 1) = Result(ex.command, 0, Peek(ex.m0.RAM, SP0 - 1))
           /\ OthersUnchanged({SP0 - 1})
    /\ (ex.at = "ran" /\ ex.kind = "program" /\ ex.command = "add" /\ SP0 = 256) =>
           /\ SP1 = 257
           /\ Peek(ex.m.RAM, 256) = 15

\* A subtraction that wraps: 0 - 1.
C7_Witness ==
    /\ ex.at = "ran"
    /\ ex.kind = "arithmetic"
    /\ ex.command = "sub"
    /\ Peek(ex.m0.RAM, SP0 - 2) = 0
    /\ Peek(ex.m0.RAM, SP0 - 1) = 1
    /\ Peek(ex.m.RAM, SP0 - 2) = WordSize - 1

\* C3: call f n, function f k, a body leaving one value, return: execution
\* resumes at the return label of the call, LCL, ARG, THIS and THAT are what
\* they were before the call, SP is the old SP - n + 1, and the value is in
\* the cell of the first argument (the old stack top when n = 0).
C3_CallReturn ==
    (ex.at = "ran" /\ ex.kind = "call-return") =>
        /\ ex.m.PC = ex.resume
        /\ \A r \in 1 .. 4 : Peek(ex.m.RAM, r) = Peek(ex.m0.RAM, r)
        /\ SP1 = SP0 - ex.n_args + 1
        /\ Peek(ex.m.RAM, SP0 - ex.n_args) = ex.value

\* A call without arguments of a function with locals has returned.
C3_Witness ==
    /\ ex.at = "ran"
    /\ ex.kind = "call-return"
    /\ ex.n_args = 0
    /\ ex.n_vars = MaxLocals
    /\ ex.m.PC = ex.resume
    /\ Peek(ex.m.RAM, SP0) = ex.value

(***************************************************************************)
(* Text lines of VM source.  A line is a sequence of pieces; a piece is a  *)
(* blank " " or a run of characters without blanks, and pieces that touch  *)
(* read as one word ("add" next to "//" is the text "add//").              *)
(***************************************************************************)
RECURSIVE strip_left(_)
strip_left(line) ==
    IF Len(line) > 0 /\ line[1] = " " THEN strip_left(Tail(line)) ELSE line

RECURSIVE strip(_)
strip(line) ==
    IF Len(line) > 0 /\ line[Len(line)] = " "
    THEN strip(SubSeq(line, 1, Len(line) - 1))
    ELSE strip_left(line)

\* str.split(" "): cut at every blank; two blanks in a row give an empty word.
RECURSIVE split_blank(_, _)
split_blank(line, word) ==
    IF Len(line) = 0 THEN << word >>
    ELSE IF line[1] = " " THEN << word >> \o split_blank(Tail(line), "")
    ELSE split_blank(Tail(line), word \o line[1])

\* str.split(): cut at runs of blanks; no empty words.
split(line) == SelectSeq(split_blank(line, ""), LAMBDA word : word # "")

\* int(word): the decimal words of the model and their values.
Numerals == {ToString(n) : n \in 0 .. 9}

int(word) == CHOOSE n \in 0 .. 9 : ToString(n) = word

(***************************************************************************)
(* main.py: constants and class CodeWriter.  uuid values are drawn by the  *)
(* caller and passed in; names that main.py shares with the package's      *)
(* modules carry the prefix main_.                                         *)
(***************************************************************************)
main_ARITHMETIC_COMMANDS == {"add", "sub", "neg", "eq", "gt", "lt", "and", "or", "not"}

main_COMMAND_TYPE_MAP ==
    [c \in {"push", "pop", "label", "goto", "if-goto", "function", "return", "call"} |->
        CASE c = "push" -> C_PUSH
          [] c = "pop" -> C_POP
          [] c = "label" -> C_LABEL
          [] c = "goto" -> C_GOTO
          [] c = "if-goto" -> C_IF
          [] c = "function" -> C_FUNCTION
          [] c = "return" -> C_RETURN
          [] c = "call" -> C_CALL]

\* dict.get: None for a missing key.
main_COMMAND_TYPE_MAP_get(c) ==
    IF c \in DOMAIN main_COMMAND_TYPE_MAP THEN main_COMMAND_TYPE_MAP[c] ELSE None

BASE_MEMORY_SEGMENT == {"local", "argument", "this", "that"}

main_SEGMENT_MAP ==
    [s \in {"local", "argument", "this", "that", "constant", "static", "pointer", "temp"} |->
        CASE s = "local" -> "LCL"
          [] s = "argument" -> "ARG"
          [] s = "this" -> "THIS"
          [] s = "that" -> "THAT"
          [] s = "constant" -> "CONSTANT"
          [] s = "static" -> "static"
          [] s = "pointer" -> "pointer"
          [] s = "temp" -> "5"]

\* The eq/gt/lt entries with JUMP_UQ and CONTINUE_UQ already replaced.
main_CompareAsm(jump, jump_label, continue_label) ==
    << At("SP"), Cx("AM=M-1"), Cx("D=M"), Cx("A=A-1"), Cx("D=M-D"),
       At(jump_label), Cx(jump),
       At("SP"), Cx("A=M-1"), Cx("M=0"),
       At(continue_label), Cx("0;JMP"),
       Lbl(jump_label),
       At("SP"), Cx("A=M-1"), Cx("M=-1"),
       Lbl(continue_label) >>

ARITHMETIC_VM_ASM_MAP(command, jump_label, continue_label) ==
    CASE command = "add" -> << At("SP"), Cx("AM=M-1"), Cx("D=M"), Cx("A=A-1"), Cx("M=D+M") >>
      [] command = "sub" -> << At("SP"), Cx("AM=M-1"), Cx("D=M"), Cx("A=A-1"), Cx("M=M-D") >>
      [] command = "neg" -> << At("SP"), Cx("A=M-1"), Cx("M=-M") >>
      [] command = "eq" -> main_CompareAsm("D;JEQ", jump_label, continue_label)
      [] command = "gt" -> main_CompareAsm("D;JGT", jump_label, continue_label)
      [] command = "lt" -> main_CompareAsm("D;JLT", jump_label, continue_label)
      [] command = "and" -> << At("SP"), Cx("AM=M-1"), Cx("D=M"), Cx("A=A-1"), Cx("M=D&M") >>
      [] command = "or" -> << At("SP"), Cx("AM=M-1"), Cx("D=M"), Cx("A=A-1"), Cx("M=D|M") >>
      [] command = "not" -> << At("SP"), Cx("A=M-1"), Cx("M=!M") >>

PUSH_CMD == << At("SP"), Cx("A=M"), Cx("M=D"), At("SP"), Cx("M=M+1") >>

POP_CMD == << At("SP"), Cx("AM=M-1"), Cx("D=M") >>

INITIAL_CODE == << AtN(256), Cx("D=A"), At("SP"), Cx("M=D") >>

\* The text of a uuid with its dashes removed.
Hex(id) == ToString(id)

main_CodeWriter_init ==
    [output_file |-> None, text |-> <<>>, source_filename |-> None]

main_write(self, lines) == [self EXCEPT !.text = @ \o lines]

main_writer_arithmetic(self, command, jump_id, continue_id) ==
    main_write(self, << Rem("//" \o command) >>
        \o ARITHMETIC_VM_ASM_MAP(command, "JUMP" \o Hex(jump_id), "CONTINUE" \o Hex(continue_id)))

main_write_push_pop(self, command, segment, index) ==
    LET index_cmd == << AtN(index), Cx("D=A") >>
        point_int == IF index = 0 THEN "THIS" ELSE "THAT"
        asm_code ==
            IF main_COMMAND_TYPE_MAP_get(command) = C_PUSH
            THEN IF segment \in BASE_MEMORY_SEGMENT
                 THEN index_cmd \o << At(main_SEGMENT_MAP[segment]), Cx("A=D+M"), Cx("D=M") >>
                      \o PUSH_CMD
                 ELSE IF segment = "temp"
                 THEN index_cmd \o << AtN(5), Cx("A=D+A"), Cx("D=M") >> \o PUSH_CMD
                 ELSE IF segment = "constant"
                 THEN index_cmd \o PUSH_CMD
                 ELSE IF segment = "static"
                 THEN << At(self.source_filename \o "." \o ToString(index)), Cx("D=M") >>
                      \o PUSH_CMD
                 ELSE << At(point_int), Cx("D=M") >> \o PUSH_CMD
            ELSE IF segment \in BASE_MEMORY_SEGMENT
            THEN index_cmd \o << At(main_SEGMENT_MAP[segment]), Cx("D=D+M"), At("R13"), Cx("M=D") >>
                 \o POP_CMD \o << At("R13"), Cx("A=M"), Cx("M=D") >>
            ELSE IF segment = "temp"
            THEN index_cmd \o << AtN(5), Cx("D=D+A"), At("R13"), Cx("M=D") >>
                 \o POP_CMD \o << At("R13"), Cx("A=M"), Cx("M=D") >>
            ELSE IF segment = "static"
            THEN POP_CMD \o << At(self.source_filename \o "." \o ToString(index)), Cx("M=D") >>
            ELSE POP_CMD \o << At(point_int), Cx("M=D") >>
    IN  main_write(self,
            << Rem("//" \o command \o " " \o segment \o " " \o ToString(index) \o " ") >>
            \o asm_code)

main_write_label(self, command) ==
    main_write(self, << Rem("// label " \o command), Lbl(command) >>)

main_write_goto(self, command) ==
    main_write(self, << Rem("// goto " \o command), At(command), Cx("0;JMP") >>)

main_write_if(self, command) ==
    main_write(self, << Rem("// if " \o command),
                        At("SP"), Cx("AM=M-1"), Cx("D=M"), At(command), Cx("D;JNE") >>)

RECURSIVE main_PushZeros(_, _)
main_PushZeros(self, n_vars) ==
    IF n_vars <= 0 THEN self
    ELSE main_PushZeros(main_write_push_pop(self, "push", "constant", 0), n_vars - 1)

main_write_function(self, fn_name, n_vars) ==
    main_PushZeros(
        main_write(self, << Rem("// function " \o fn_name \o " " \o ToString(n_vars)),
                            Lbl(fn_name) >>),
        n_vars)

main_write_call(self, fn_name, n_args, id) ==
    LET return_address_label == "return_add_" \o fn_name \o "_" \o Hex(id)
    IN  main_write(self,
            << Rem("//call " \o fn_name \o " " \o ToString(n_args)),
               At(return_address_label), Cx("D=A") >> \o PUSH_CMD
            \o << At("LCL"), Cx("D=M") >> \o PUSH_CMD
            \o << At("ARG"), Cx("D=M") >> \o PUSH_CMD
            \o << At("THIS"), Cx("D=M") >> \o PUSH_CMD
            \o << At("THAT"), Cx("D=M") >> \o PUSH_CMD
            \o << At("SP"), Cx("D=M"), AtN(5), Cx("D=D-A"), AtN(n_args), Cx("D=D-A"),
                  At("ARG"), Cx("M=D"),
                  Rem("//LCL"), At("SP"), Cx("D=M"), At("LCL"), Cx("M=D"),
                  Rem("//goto"), At(fn_name), Cx("0;JMP"),
                  Lbl(return_address_label) >>)

main_write_return(self) ==
    LET framed == main_write(self,
                      << Rem("//return"), Rem("//frame"),
                         At("LCL"), Cx("D=M"), At("R14"), Cx("M=D"),
                         AtN(5), Cx("AD=D-A"), Cx("D=M"), At("R15"), Cx("M=D") >>)
        popped == main_write_push_pop(framed, "pop", "argument", 0)
    IN  main_write(popped,
            << At("ARG"), Cx("D=M+1"), At("SP"), Cx("M=D"),
               Rem("//reposition THAT"),
               At("R14"), Cx("DM=M-1"), Cx("A=D"), Cx("D=M"), At("THAT"), Cx("M=D"),
               Rem("//reposition THIS"),
               At("R14"), Cx("AM=M-1"), Cx("D=M"), At("THIS"), Cx("M=D"),
               Rem("//reposition ARG"),
               At("R14"), Cx("AM=M-1"), Cx("D=M"), At("ARG"), Cx("M=D"),
               Rem("//reposition LCL"),
               At("R14"), Cx("AM=M-1"), Cx("D=M"), At("LCL"), Cx("M=D"),
               Rem("//goto"),
               At("R15"), Cx("A=M"), Cx("0;JMP") >>)

\* __enter__ writing the call of Sys.init before INITIAL_CODE.
main_CodeWriter_enter_CallFirst(self, id) ==
    main_write(main_write_call([self EXCEPT !.output_file = "open", !.text = <<>>],
                               "Sys.init", 0, id),
               INITIAL_CODE)

\* __enter__ opens the output and writes INITIAL_CODE and call Sys.init 0.
main_CodeWriter_enter(self, id) ==
    main_write_call(main_write([self EXCEPT !.output_file = "open", !.text = <<>>], INITIAL_CODE),
                    "Sys.init", 0, id)

(***************************************************************************)
(* main.py: class Parser.                                                  *)
(***************************************************************************)
main_Parser_init(lines) ==
    [file |-> lines, line_index |-> 0, total_lines |-> 0, has_more_lines |-> TRUE,
     current_command |-> None]

main_Parser_enter(self) ==
    [self EXCEPT !.total_lines = Len(self.file), !.has_more_lines = Len(self.file) # 0]

\* readline() gives the empty text at the end of the file.
main_advance(self) ==
    IF ~self.has_more_lines THEN self
    ELSE [self EXCEPT
            !.current_command =
                IF self.line_index < Len(self.file)
                THEN strip(self.file[self.line_index + 1]) ELSE <<>>,
            !.line_index = @ + 1,
            !.has_more_lines = ~(self.line_index + 1 > self.total_lines)]

main_command_type(command) ==
    IF command \in main_ARITHMETIC_COMMANDS THEN C_ARITHMETIC
    ELSE main_COMMAND_TYPE_MAP_get(command)

(***************************************************************************)
(* main.py: main().  A path is the sequence of its components and a        *)
(* component the sequence of its dot-separated parts: "prog/Sys.vm" is     *)
(* << <<"prog">>, <<"Sys", "vm">> >>.                                      *)
(***************************************************************************)
RECURSIVE JoinSlashes(_)
JoinSlashes(parts) ==
    IF Len(parts) = 0 THEN ""
    ELSE IF Len(parts) = 1 THEN parts[1]
    ELSE parts[1] \o "/" \o JoinSlashes(Tail(parts))

\* str(path).split(".")[0], as the sequence of its components.
RECURSIVE BeforeFirstDot(_)
BeforeFirstDot(path) ==
    IF Len(path) = 0 THEN <<>>
    ELSE IF Len(path[1]) > 1 THEN << path[1][1] >>
    ELSE << path[1][1] >> \o BeforeFirstDot(Tail(path))

\* The words a line of VM source is written with, one blank between them.
RECURSIVE Spaced(_)
Spaced(words) ==
    IF Len(words) <= 1 THEN words
    ELSE << words[1], " " >> \o Spaced(Tail(words))

SysVm == <<"Sys", "vm">>

\* The files of the model and their lines.
\* Files that each hold one malformed line: an unrecognised segment, an
\* unknown first token, a token too many, a token too few, and an argument
\* count that is no number.
Malformed ==
    { <<"Segment", "vm">>, <<"Token", "vm">>, <<"Count", "vm">>, <<"Short", "vm">>,
      <<"Index", "vm">> }

Source ==
    [name \in { SysVm, <<"A", "vm">>, <<"B", "vm">>, <<"Foo", "vm">>, <<"notes", "txt">> }
                 \cup Malformed |->
        CASE name = SysVm ->
                 << Spaced(<<"function", "Sys.init", "0">>),
                    Spaced(<<"call", "A.f", "1">>),
                    Spaced(<<"label", "END">>),
                    Spaced(<<"goto", "END">>) >>
          [] name = <<"A", "vm">> ->
                 << Spaced(<<"//", "A.f">>),
                    Spaced(<<"function", "A.f", "1">>),
                    Spaced(<<"push", "argument", "0">>),
                    Spaced(<<"pop", "static", "0">>),
                    <<>>,
                    Spaced(<<"return">>) >>
          [] name = <<"B", "vm">> ->
                 << Spaced(<<"push", "static", "1">>),
                    Spaced(<<"push", "constant", "2">>),
                    Spaced(<<"lt">>),
                    Spaced(<<"if-goto", "X">>) >>
          [] name = <<"Foo", "vm">> ->
                 << Spaced(<<"push", "constant", "7">>),
                    Spaced(<<"push", "constant", "8">>),
                    Spaced(<<"add">>) >>
          [] name = <<"Segment", "vm">> -> << Spaced(<<"push", "heap", "1">>) >>
          [] name = <<"Token", "vm">> -> << Spaced(<<"jump", "local", "1">>) >>
          [] name = <<"Count", "vm">> -> << Spaced(<<"add", "1">>) >>
          [] name = <<"Short", "vm">> -> << Spaced(<<"pop", "local">>) >>
          [] name = <<"Index", "vm">> -> << Spaced(<<"call", "A.f", "x">>) >>
          [] name = <<"notes", "txt">> -> << Spaced(<<"not", "VM", "code">>) >> ]

\* The orders in which glob can list the files of names.
Listings(names) ==
    {l \in UNION { [1 .. n -> names] : n \in 0 .. Cardinality(names) } :
        \A i, j \in DOMAIN l : i # j => l[i] # l[j]}

\* The command lines main() can be started with: a path that does not
\* exist, a file, or a directory with the files glob("*.*") lists.
Arguments ==
    { [kind |-> "missing", path |-> << <<"nowhere", "vm">> >>, all_files |-> <<>>] }
        \cup { [kind |-> "file", path |-> << f >>, all_files |-> <<>>] :
                 f \in { <<"Foo", "vm">>, SysVm } \cup Malformed }
        \cup { [kind |-> "dir", path |-> << <<"prog">> >>, all_files |-> l] :
                 l \in Listings({ SysVm, <<"A", "vm">>, <<"B", "vm">>, <<"notes", "txt">> }) }

Uuids == 1 .. MaxUuid

\* The sequences of n distinct uuid values not drawn before.
FreshIds(n) ==
    {ids \in [1 .. n -> Uuids \ drv.drawn] : \A i, j \in 1 .. n : i # j => ids[i] # ids[j]}

\* The uuid values the loop body draws for the command line (uuid1 and
\* uuid4 in writer_arithmetic, uuid4 in write_call).
Draws(current_command) ==
    IF current_command = <<>> \/ current_command[1] = "//" THEN 0
    ELSE LET command_type == main_command_type(split_blank(current_command, "")[1])
         IN  IF command_type = C_ARITHMETIC THEN 2
             ELSE IF command_type = C_CALL THEN 1
             ELSE 0

\* The body of the loop "while parser.has_more_lines" after advance(): the
\* CodeWriter after the command line, or the exception that ends main().
Translate(self, current_command, ids) ==
    IF current_command = <<>> \/ current_command[1] = "//"
    THEN [raised |-> None, writer |-> self]
    ELSE
    LET words == split_blank(current_command, "")
        command == words[1]
        command_type == main_command_type(command)
        arg1 == IF command_type # C_RETURN THEN words[1] ELSE ""
        takes2 == command_type \in {C_POP, C_PUSH, C_FUNCTION, C_CALL, C_LABEL, C_IF, C_GOTO}
        arg2 == IF takes2 THEN words[2] ELSE ""
        takes3 == command_type \in {C_FUNCTION, C_CALL}
        third == split(current_command)
    IN  IF takes2 /\ Len(words) < 2 THEN [raised |-> "IndexError", writer |-> self]
        ELSE IF takes3 /\ Len(words) < 3 THEN [raised |-> "IndexError", writer |-> self]
        ELSE IF takes3 /\ words[3] \notin Numerals THEN [raised |-> "ValueError", writer |-> self]
        ELSE IF command_type = C_ARITHMETIC
        THEN [raised |-> None, writer |-> main_writer_arithmetic(self, arg1, ids[1], ids[2])]
        ELSE IF command_type = C_LABEL
        THEN [raised |-> None, writer |-> main_write_label(self, arg2)]
        ELSE IF command_type = C_GOTO
        THEN [raised |-> None, writer |-> main_write_goto(self, arg2)]
        ELSE IF command_type = C_IF
        THEN [raised |-> None, writer |-> main_write_if(self, arg2)]
        ELSE IF command_type = C_FUNCTION
        THEN [raised |-> None, writer |-> main_write_function(self, arg2, int(words[3]))]
        ELSE IF command_type = C_CALL
        THEN [raised |-> None, writer |-> main_write_call(self, arg2, int(words[3]), ids[1])]
        ELSE IF command_type = C_RETURN
        THEN [raised |-> None, writer |-> main_write_return(self)]
        ELSE IF Len(third) < 3 THEN [raised |-> "IndexError", writer |-> self]
        ELSE IF third[3] \notin Numerals THEN [raised |-> "ValueError", writer |-> self]
        ELSE [raised |-> None, writer |-> main_write_push_pop(self, arg1, arg2, int(third[3]))]

\* The value main() returns, or the exception it lets through, when the
\* exception named raised reaches its handlers.
Outcome(raised) ==
    IF raised = "ValueError" THEN "INVALID_ARGS"
    ELSE IF raised \in {"FileNotFoundError", "PermissionError"} THEN raised
    ELSE "ERROR"

Exit(outcome) == [drv EXCEPT !.at = "exit", !.outcome = outcome]

\* History of a run, kept in log: a unit is opened ("with Parser(...)"), and
\* the loop body translates a command of the unit the writer is set to,
\* writing the lines lo .. hi of the output or raising.
Opened(name) == [what |-> "open", unit |-> name]

Translated(before, current_command, done) ==
    [what |-> "line", source_filename |-> before.source_filename,
     command |-> current_command, raised |-> done.raised,
     lo |-> Len(before.text) + 1, hi |-> Len(done.writer.text)]

\* filename.exists() is false.
MainMissing ==
    /\ drv.at = "start"
    /\ drv.arg.kind = "missing"
    /\ drv' = Exit(Outcome("FileNotFoundError"))
    /\ UNCHANGED <<cw, log, mw, ex, ps>>

\* filename.is_file(): both context managers are entered.
MainFile ==
    /\ drv.at = "start"
    /\ drv.arg.kind = "file"
    /\ \E ids \in FreshIds(1) :
        /\ mw' = [main_CodeWriter_enter(main_CodeWriter_init, ids[1]) EXCEPT
                     !.source_filename = JoinSlashes(BeforeFirstDot(drv.arg.path))]
        /\ drv' = [drv EXCEPT
                     !.at = "file",
                     !.drawn = @ \cup {ids[1]},
                     !.parser = main_Parser_enter(
                                    main_Parser_init(Source[drv.arg.path[Len(drv.arg.path)]]))]
    /\ log' = Append(log, Opened(drv.arg.path[Len(drv.arg.path)]))
    /\ UNCHANGED <<cw, ex, ps>>

\* The parser of the file name of the directory, and the CodeWriter set to it.
Unit(writer, name) ==
    LET path == drv.arg.path \o << name >>
        before == BeforeFirstDot(path)
    IN  [parser |-> main_Parser_enter(main_Parser_init(Source[name])),
         writer |-> [writer EXCEPT !.source_filename = before[Len(before)]]]

\* filename.is_dir(): the CodeWriter is entered, the files are listed and
\* Sys.vm, when listed, is opened.
MainDir ==
    /\ drv.at = "start"
    /\ drv.arg.kind = "dir"
    /\ \E ids \in FreshIds(1) :
        LET entered == main_CodeWriter_enter(main_CodeWriter_init, ids[1])
            sys_vm == \E i \in DOMAIN drv.arg.all_files : drv.arg.all_files[i] = SysVm
        IN  IF sys_vm
            THEN /\ mw' = Unit(entered, SysVm).writer
                 /\ drv' = [drv EXCEPT !.at = "sys", !.drawn = @ \cup {ids[1]},
                                       !.parser = Unit(entered, SysVm).parser]
                 /\ log' = Append(log, Opened(SysVm))
            ELSE /\ mw' = entered
                 /\ drv' = [drv EXCEPT !.at = "others", !.drawn = @ \cup {ids[1]}]
                 /\ log' = log
    /\ UNCHANGED <<cw, ex, ps>>

\* One turn of "while parser.has_more_lines": advance() and the loop body.
MainLine ==
    /\ drv.at \in {"file", "sys", "other"}
    /\ drv.parser.has_more_lines
    /\ LET parser == main_advance(drv.parser)
       IN  \E ids \in FreshIds(Draws(parser.current_command)) :
            LET done == Translate(mw, parser.current_command, ids)
            IN  /\ mw' = done.writer
                /\ drv' = IF done.raised # None
                          THEN [Exit(Outcome(done.raised)) EXCEPT !.parser = parser]
                          ELSE [drv EXCEPT !.parser = parser,
                                           !.drawn = @ \cup {ids[i] : i \in DOMAIN ids}]
                /\ log' = IF parser.current_command = <<>> \/ parser.current_command[1] = "//"
                          THEN log
                          ELSE Append(log, Translated(mw, parser.current_command, done))
    /\ UNCHANGED <<cw, ex, ps>>

\* The loop over the lines of a unit ends: main() returns after the single
\* file, and goes on to the other files after Sys.vm or another unit.
MainEndUnit ==
    /\ drv.at \in {"file", "sys", "other"}
    /\ ~drv.parser.has_more_lines
    /\ drv' = IF drv.at = "file" THEN Exit("SUCCESS") ELSE [drv EXCEPT !.at = "others"]
    /\ UNCHANGED <<cw, log, mw, ex, ps>>

\* The turn of "for file in all_files" without the test for Sys.vm.
MainNextFile_SysAgain ==
    /\ drv.at = "others"
    /\ IF drv.next > Len(drv.arg.all_files)
       THEN /\ drv' = Exit("SUCCESS")
            /\ mw' = mw
            /\ log' = log
       ELSE LET file_name == drv.arg.all_files[drv.next]
                extension == file_name[Len(file_name)]
            IN  IF extension = "vm"
                THEN /\ mw' = Unit(mw, file_name).writer
                     /\ drv' = [drv EXCEPT !.at = "other", !.next = @ + 1,
                                           !.parser = Unit(mw, file_name).parser]
                     /\ log' = Append(log, Opened(file_name))
                ELSE /\ mw' = mw
                     /\ drv' = [drv EXCEPT !.next = @ + 1]
                     /\ log' = log
    /\ UNCHANGED <<cw, ex, ps>>

\* One turn of "for file in all_files", or its end.
MainNextFile ==
    /\ drv.at = "others"
    /\ IF drv.next > Len(drv.arg.all_files)
       THEN /\ drv' = Exit("SUCCESS")
            /\ mw' = mw
            /\ log' = log
       ELSE LET file_name == drv.arg.all_files[drv.next]
                extension == file_name[Len(file_name)]
            IN  IF file_name # SysVm /\ extension = "vm"
                THEN /\ mw' = Unit(mw, file_name).writer
                     /\ drv' = [drv EXCEPT !.at = "other", !.next = @ + 1,
                                           !.parser = Unit(mw, file_name).parser]
                     /\ log' = Append(log, Opened(file_name))
                ELSE /\ mw' = mw
                     /\ drv' = [drv EXCEPT !.next = @ + 1]
                     /\ log' = log
    /\ UNCHANGED <<cw, ex, ps>>

InitMain ==
    /\ cw = Idle
    /\ log = <<>>
    /\ mw = main_CodeWriter_init
    /\ drv \in { [at |-> "start", arg |-> a, parser |-> None, next |-> 1, drawn |-> {},
                  outcome |-> None] : a \in Arguments }
    /\ ex = Idle
    /\ ps = Idle

NextMain ==
    \/ MainMissing
    \/ MainFile
    \/ MainDir
    \/ MainLine
    \/ MainEndUnit
    \/ MainNextFile

SpecMain == InitMain /\ [][NextMain]_vars

(***************************************************************************)
(* Properties of a run of main().                                          *)
(***************************************************************************)
SetsStackPointer == << AtN(256), Cx("D=A"), At("SP"), Cx("M=D") >>

\* The text holds, somewhere, the lines that set SP to 256.
HasBootstrap(text) ==
    \E i \in 1 .. (Len(text) - 3) : SubSeq(text, i, i + 3) = SetsStackPointer

\* C5: a run on a single .vm file writes no bootstrap code, and a run on a
\* directory writes it only when Sys.vm is among the files.
C5_BootstrapApplicability ==
    HasBootstrap(mw.text) =>
        /\ drv.arg.kind = "dir"
        /\ \E i \in DOMAIN drv.arg.all_files : drv.arg.all_files[i] = SysVm

NoRemarks(text) == SelectSeq(text, LAMBDA line : line.op # "//")

\* What the claim lists for the bootstrap: SP = 256, then the return address
\* and LCL, ARG, THIS, THAT pushed, ARG = SP - 5 - 0, LCL = SP, the jump to
\* Sys.init and the definition of the return label.
ExpectedBootstrap(return_label) ==
    << AtN(256), Cx("D=A"), At("SP"), Cx("M=D"),
       At(return_label), Cx("D=A"), At("SP"), Cx("A=M"), Cx("M=D"), At("SP"), Cx("M=M+1"),
       At("LCL"), Cx("D=M"), At("SP"), Cx("A=M"), Cx("M=D"), At("SP"), Cx("M=M+1"),
       At("ARG"), Cx("D=M"), At("SP"), Cx("A=M"), Cx("M=D"), At("SP"), Cx("M=M+1"),
       At("THIS"), Cx("D=M"), At("SP"), Cx("A=M"), Cx("M=D"), At("SP"), Cx("M=M+1"),
       At("THAT"), Cx("D=M"), At("SP"), Cx("A=M"), Cx("M=D"), At("SP"), Cx("M=M+1"),
       At("SP"), Cx("D=M"), AtN(5), Cx("D=D-A"), AtN(0), Cx("D=D-A"), At("ARG"), Cx("M=D"),
       At("SP"), Cx("D=M"), At("LCL"), Cx("M=D"),
       At("Sys.init"), Cx("0;JMP"),
       Lbl(return_label) >>

\* The text starts with the bootstrap that uses return_label, and defines
\* that label nowhere else.
StartsWithBootstrap(text, return_label) ==
    LET code == NoRemarks(text)
        expected == ExpectedBootstrap(return_label)
    IN  /\ Len(text) >= 4
        /\ SubSeq(text, 1, 4) = SetsStackPointer
        /\ Len(code) >= Len(expected)
        /\ SubSeq(code, 1, Len(expected)) = expected
        /\ \A i \in (Len(expected) + 1) .. Len(code) : code[i] # Lbl(return_label)

\* The bootstrap, followed by the entry of Sys.init, executed on a machine
\* with an empty stack: the return address and the four base pointers are
\* in cells 256 .. 260, SP = 261, ARG = 256, LCL = 261, and execution is at
\* Sys.init.
BootstrapRuns(text, return_label) ==
    LET code == NoRemarks(text)
        boot == SubSeq(code, 1, Len(ExpectedBootstrap(return_label))) \o << Lbl("Sys.init") >>
        m0 == Machine(<<>>)
        m == Execute(boot, m0)
    IN  /\ m.PC = SymbolValue(boot, "Sys.init")
        /\ Peek(m.RAM, 0) = 261
        /\ Peek(m.RAM, 256) = SymbolValue(boot, return_label)
        /\ \A r \in 1 .. 4 : Peek(m.RAM, 256 + r) = Peek(m0.RAM, r)
        /\ Peek(m.RAM, 2) = 256
        /\ Peek(m.RAM, 1) = 261
        /\ \A r \in 3 .. 4 : Peek(m.RAM, r) = Peek(m0.RAM, r)

RECURSIVE partition_head(_)
partition_head(line) ==
    IF Len(line) = 0 \/ line[1] = "//" THEN <<>>
    ELSE << line[1] >> \o partition_head(Tail(line))

Parser_init(file) == [file |-> file, pos |-> 0, current_command |-> <<>>]

\* tell, readline, seek: the position is left where it was.
Parser_has_more_commands(self) == self.pos < Len(self.file)

RECURSIVE Parser_advance(_)
Parser_advance(self) ==
    IF self.pos >= Len(self.file) THEN [self EXCEPT !.current_command = <<>>]
    ELSE LET line == strip(partition_head(self.file[self.pos + 1]))
             read == [self EXCEPT !.pos = @ + 1]
         IN  IF line # <<>> THEN [read EXCEPT !.current_command = << line >>]
             ELSE Parser_advance(read)

COMMAND_TYPE_MAP_get(cmd) ==
    IF cmd \in DOMAIN COMMAND_TYPE_MAP THEN COMMAND_TYPE_MAP[cmd] ELSE None

\* None has no split: the property raises AttributeError.
Parser_command_type(self) ==
    IF self.current_command = <<>> THEN [raised |-> "AttributeError"]
    ELSE LET cmd == split(self.current_command[1])[1]
         IN  IF cmd \in ARITHMETIC_COMMANDS THEN [kind |-> C_ARITHMETIC]
             ELSE [kind |-> COMMAND_TYPE_MAP_get(cmd)]

Parser_args(self) ==
    IF self.current_command = <<>> THEN [raised |-> "AttributeError"]
    ELSE [words |-> split(self.current_command[1])]

(***************************************************************************)
(* The Parser under an arbitrary caller, on every file of at most MaxLines *)
(* of the sample lines.                                                    *)
(***************************************************************************)
SampleLines ==
    { Spaced(<<"add">>),
      Spaced(<<"add", "//", "sum">>),
      Spaced(<<"push", "constant", "7">>),
      Spaced(<<"push">>),
      Spaced(<<"return", "0">>),
      Spaced(<<"label", "LOOP">>),
      Spaced(<<"Push", "constant", "7">>),
      <<"//", " ", "note">>,
      << " " >>,
      <<>> }

ParserFiles == UNION { [1 .. n -> SampleLines] : n \in 0 .. MaxLines }

ParserHasMoreCommands ==
    /\ ps.at = "parser"
    /\ ps' = [ps EXCEPT !.returned = [op |-> "has_more_commands",
                                      more |-> Parser_has_more_commands(ps.self)]]
    /\ UNCHANGED <<cw, log, mw, drv, ex>>

\* advance(); the record keeps the position it started from and what
\* has_more_commands() returned there, as the guard of a loop
\* "while has_more_commands(): advance()" sees it.
ParserAdvance ==
    /\ ps.at = "parser"
    /\ ps' = [ps EXCEPT !.self = Parser_advance(@),
                        !.returned = [op |-> "advance",
                                      had_more |-> Parser_has_more_commands(ps.self),
                                      from |-> ps.self.pos]]
    /\ UNCHANGED <<cw, log, mw, drv, ex>>

ParserCommandType ==
    /\ ps.at = "parser"
    /\ ps' = [ps EXCEPT !.returned =
                 [op |-> "command_type"] @@ Parser_command_type(ps.self)]
    /\ UNCHANGED <<cw, log, mw, drv, ex>>

ParserArgs ==
    /\ ps.at = "parser"
    /\ ps' = [ps EXCEPT !.returned = [op |-> "args"] @@ Parser_args(ps.self)]
    /\ UNCHANGED <<cw, log, mw, drv, ex>>

InitParser ==
    /\ cw = Idle
    /\ log = <<>>
    /\ mw = Idle
    /\ drv = Idle
    /\ ex = Idle
    /\ ps \in { [at |-> "parser", self |-> Parser_init(file), returned |-> [op |-> "init"]] :
                 file \in ParserFiles }

NextParser == ParserHasMoreCommands \/ ParserAdvance \/ ParserCommandType \/ ParserArgs

SpecParser == InitParser /\ [][NextParser]_vars

\* The number of tokens the specification requires of a command of a kind.
RequiredTokens(kind) ==
    CASE kind \in {C_ARITHMETIC, C_RETURN} -> 1
      [] kind \in {C_LABEL, C_GOTO, C_IF} -> 2
      [] kind \in {C_PUSH, C_POP, C_FUNCTION, C_CALL} -> 3

\* C8: whenever command_type returns one of the nine kinds for the current
\* line, the first token of the line is a name of the table (one of the
\* nine operator names for the arithmetic kind) and the line has exactly
\* the number of tokens its kind requires; a line with an unknown first
\* token or another number of tokens is not returned as one of the kinds.
C8_Classification ==
    (ps.returned.op = "command_type" /\ ps.self.current_command # <<>>) =>
        LET words == split(ps.self.current_command[1])
            kind == ps.returned.kind
        IN  kind \in CommandType =>
                /\ words[1] \in ARITHMETIC_COMMANDS
                                 \cup {"push", "pop", "label", "goto", "if-goto",
                                       "function", "return", "call"}
                /\ (kind = C_ARITHMETIC) = (words[1] \in ARITHMETIC_COMMANDS)
                /\ Len(words) = RequiredTokens(kind)

(***************************************************************************)
(* Two independent runs of each code generator.  Both runs of             *)
(* code_writer.py's CodeWriter (cw) and both runs of main.py's CodeWriter  *)
(* (mw) are given the same calls, recorded in log; each run of main.py     *)
(* draws its own uuid values.                                              *)
(***************************************************************************)
\* The sequences of n distinct uuid values a run that drew drawn can draw.
RunIds(n, drawn) ==
    {ids \in [1 .. n -> Uuids \ drawn] : \A i, j \in 1 .. n : i # j => ids[i] # ids[j]}

Same(call) ==
    /\ drv.at = "entered"
    /\ Len(log) < MaxRunCalls
    /\ log' = Append(log, call)
    /\ UNCHANGED <<ex, ps>>

RunsEnter ==
    /\ drv.at = "constructed"
    /\ cw' = [run \in {"first", "second"} |->
                 set_filename(CodeWriter_enter(cw[run]), <<"A", "vm">>)]
    /\ \E ids \in [{"first", "second"} -> Uuids] :
           /\ mw' = [run \in {"first", "second"} |->
                        [main_CodeWriter_enter(mw[run], ids[run])
                            EXCEPT !.source_filename = "A"]]
           /\ drv' = [at |-> "entered", drawn |-> [run \in {"first", "second"} |-> {ids[run]}]]
    /\ UNCHANGED <<log, ex, ps>>

RunsArithmetic ==
    \E command \in {"add", "eq"} :
        /\ Same([method |-> "writer_arithmetic", command |-> command])
        /\ cw' = [run \in {"first", "second"} |-> writer_arithmetic(cw[run], command)]
        /\ \E first \in RunIds(2, drv.drawn.first), second \in RunIds(2, drv.drawn.second) :
               LET ids == [run \in {"first", "second"} |->
                              IF run = "first" THEN first ELSE second]
               IN  /\ mw' = [run \in {"first", "second"} |->
                                main_writer_arithmetic(mw[run], command, ids[run][1], ids[run][2])]
                   /\ drv' = [drv EXCEPT !.drawn =
                                 [run \in {"first", "second"} |->
                                     @[run] \cup {ids[run][1], ids[run][2]}]]

RunsPushPop ==
    \E command \in {"push", "pop"} :
        /\ Same([method |-> "write_push_pop", command |-> command, segment |-> "static",
                 index |-> MaxIndex])
        /\ cw' = [run \in {"first", "second"} |->
                     write_push_pop(cw[run], COMMAND_TYPE_MAP[command], "static", MaxIndex)]
        /\ mw' = [run \in {"first", "second"} |->
                     main_write_push_pop(mw[run], command, "static", MaxIndex)]
        /\ UNCHANGED drv

RunsLabel ==
    \E label \in Labels :
        /\ Same([method |-> "write_label", label |-> label])
        /\ cw' = [run \in {"first", "second"} |-> write_label(cw[run], label)]
        /\ mw' = [run \in {"first", "second"} |-> main_write_label(mw[run], label)]
        /\ UNCHANGED drv

RunsGoto ==
    \E label \in Labels :
        /\ Same([method |-> "write_goto", label |-> label])
        /\ cw' = [run \in {"first", "second"} |-> write_goto(cw[run], label)]
        /\ mw' = [run \in {"first", "second"} |-> main_write_goto(mw[run], label)]
        /\ UNCHANGED drv

RunsIf ==
    \E label \in Labels :
        /\ Same([method |-> "write_if", label |-> label])
        /\ cw' = [run \in {"first", "second"} |-> write_if(cw[run], label)]
        /\ mw' = [run \in {"first", "second"} |-> main_write_if(mw[run], label)]
        /\ UNCHANGED drv

RunsFunction ==
    \E call \in FunctionCalls :
        /\ Same([method |-> "write_function", fn_name |-> call[1], n_vars |-> call[2]])
        /\ cw' = [run \in {"first", "second"} |-> write_function(cw[run], call[1], call[2])]
        /\ mw' = [run \in {"first", "second"} |-> main_write_function(mw[run], call[1], call[2])]
        /\ UNCHANGED drv

RunsCall ==
    \E call \in CallCalls :
        /\ Same([method |-> "write_call", fn_name |-> call[1], n_args |-> call[2]])
        /\ cw' = [run \in {"first", "second"} |-> write_call(cw[run], call[1], call[2])]
        /\ \E first \in RunIds(1, drv.drawn.first), second \in RunIds(1, drv.drawn.second) :
               LET ids == [run \in {"first", "second"} |->
                              IF run = "first" THEN first ELSE second]
               IN  /\ mw' = [run \in {"first", "second"} |->
                                main_write_call(mw[run], call[1], call[2], ids[run][1])]
                   /\ drv' = [drv EXCEPT !.drawn =
                                 [run \in {"first", "second"} |-> @[run] \cup {ids[run][1]}]]

RunsReturn ==
    /\ Same([method |-> "write_return"])
    /\ cw' = [run \in {"first", "second"} |-> write_return(cw[run])]
    /\ mw' = [run \in {"first", "second"} |-> main_write_return(mw[run])]
    /\ UNCHANGED drv

InitRuns ==
    /\ cw = [run \in {"first", "second"} |-> CodeWriter_init]
    /\ log = <<>>
    /\ mw = [run \in {"first", "second"} |-> main_CodeWriter_init]
    /\ drv = [at |-> "constructed", drawn |-> [run \in {"first", "second"} |-> {}]]
    /\ ex = Idle
    /\ ps = Idle

NextRuns ==
    \/ RunsEnter
    \/ RunsArithmetic
    \/ RunsPushPop
    \/ RunsLabel
    \/ RunsGoto
    \/ RunsIf
    \/ RunsFunction
    \/ RunsCall
    \/ RunsReturn

SpecRuns == InitRuns /\ [][NextRuns]_vars

\* C10: two runs of a generator that were given the same calls have written
\* the same text, for the CodeWriter of code_writer.py and for the
\* CodeWriter of main.py.
C10_DeterministicEmission ==
    /\ cw.first.text = cw.second.text
    /\ mw.first.text = mw.second.text

(***************************************************************************)
(* Properties of the history of a run of main().                           *)
(***************************************************************************)
\* The units opened so far, in the order of their opening.
Opens == SelectSeq(log, LAMBDA entry : entry.what = "open")

\* The index in log of the last unit opened before entry i (0 when none).
LastOpen(i) ==
    LET before == {j \in 1 .. (i - 1) : log[j].what = "open"}
    IN  IF before = {} THEN 0 ELSE CHOOSE j \in before : \A k \in before : k <= j

\* C11: in a directory run the units are translated one after another: a
\* command is translated for the unit opened last, and its text follows
\* all text written before.  When Sys.vm is listed it is the first unit
\* opened and no command of another unit is translated before one of
\* Sys.vm.  No unit is opened twice, only listed .vm files are opened, and
\* a run that ends in success has opened every listed .vm file.
C11_UnitOrdering ==
    drv.arg.kind = "dir" =>
        LET listed == {drv.arg.all_files[i] : i \in DOMAIN drv.arg.all_files}
            units == {f \in listed : f[Len(f)] = "vm"}
        IN  /\ \A i, j \in DOMAIN Opens : i # j => Opens[i].unit # Opens[j].unit
            /\ \A i \in DOMAIN Opens : Opens[i].unit \in units
            /\ (SysVm \in listed /\ Opens # <<>>) => Opens[1].unit = SysVm
            /\ (drv.at = "exit" /\ drv.outcome = "SUCCESS") =>
                   {Opens[i].unit : i \in DOMAIN Opens} = units
            /\ \A j \in DOMAIN log : log[j].what = "line" =>
                   /\ LastOpen(j) # 0
                   /\ log[j].source_filename = log[LastOpen(j)].unit[1]
                   /\ \A i \in 1 .. (j - 1) : log[i].what = "line" =>
                          /\ log[i].hi < log[j].lo
                          /\ log[j].source_filename = "Sys" =>
                                 log[i].source_filename = "Sys"

\* A directory whose listing starts with A.vm and holds Sys.vm and B.vm was
\* translated to the end.
C11_Witness ==
    /\ drv.at = "exit"
    /\ drv.outcome = "SUCCESS"
    /\ drv.arg.kind = "dir"
    /\ Len(drv.arg.all_files) >= 3
    /\ drv.arg.all_files[1] = <<"A", "vm">>
    /\ Len(Opens) = 3
    /\ \E j \in DOMAIN log : log[j].what = "line" /\ log[j].source_filename = "B"

\* A command line as the specification requires it: a known first token,
\* the number of tokens of its kind, a recognised segment and a numeric
\* index or argument count.
WellFormed(command) ==
    LET words == split(command)
    IN  \/ Len(words) = 1 /\ words[1] \in main_ARITHMETIC_COMMANDS \cup {"return"}
        \/ Len(words) = 2 /\ words[1] \in {"label", "goto", "if-goto"}
        \/ /\ Len(words) = 3
           /\ words[1] \in {"push", "pop"}
           /\ words[2] \in {"local", "argument", "this", "that", "constant", "static",
                            "pointer", "temp"}
           /\ words[3] \in Numerals
        \/ Len(words) = 3 /\ words[1] \in {"function", "call"} /\ words[3] \in Numerals

\* C12: main() ends every run by returning one of its exit outcomes; a run
\* on a missing input does not return success, no assembly is written for a
\* malformed line, and a run that translated a malformed line does not
\* return success.
C12_FailurePropagation ==
    /\ \A j \in DOMAIN log :
           (log[j].what = "line" /\ ~WellFormed(log[j].command)) =>
               /\ log[j].hi < log[j].lo
               /\ drv.at = "exit" => drv.outcome # "SUCCESS"
    /\ drv.at = "exit" =>
           /\ drv.outcome \in {"SUCCESS", "INVALID_ARGS", "ERROR"}
           /\ drv.arg.kind = "missing" => drv.outcome # "SUCCESS"

(***************************************************************************)
(* Properties of the scalars of code_writer.py's CodeWriter.               *)
(***************************************************************************)
\* The calls among the first n of log that take a label number: eq, gt and
\* lt, write_call, and write_init for the call it makes.
RECURSIVE Numbered(_)
Numbered(n) ==
    IF n = 0 THEN 0
    ELSE Numbered(n - 1)
         + (IF \/ log[n].m \in {"write_call", "write_init"}
               \/ log[n].m = "writer_arithmetic" /\ log[n].command \in {"eq", "gt", "lt"}
            THEN 1 ELSE 0)

\* C13: label_counter is the number of comparisons, calls and bootstraps
\* emitted so far: it starts at 0, each of these calls found it at the
\* number of those before it and added 1, and no other operation,
\* set_filename included, changed it.  From the current state each of the
\* nine arithmetic commands adds 1 exactly when it is eq, gt or lt, and no
\* push or pop of any segment adds anything.
C13_LabelCounter ==
    /\ cw.label_counter = Numbered(Len(log))
    /\ \A i \in DOMAIN log :
           "label_counter" \in DOMAIN log[i] => log[i].label_counter = Numbered(i - 1)
    /\ \A command \in ARITHMETIC_COMMANDS :
           writer_arithmetic(cw, command).label_counter
               = cw.label_counter + (IF command \in {"eq", "gt", "lt"} THEN 1 ELSE 0)
    /\ \A command \in {C_PUSH, C_POP}, segment \in DOMAIN SEGMENT_MAP, index \in 0 .. MaxIndex :
           write_push_pop(cw, command, segment, index).label_counter = cw.label_counter

\* A comparison and a call under module A, then a change to module B and
\* an operation that takes no number.
C13_Witness ==
    /\ Len(log) = 3
    /\ log[1].m = "writer_arithmetic" /\ log[1].command = "eq"
    /\ log[2].m = "write_call"
    /\ log[2].label_counter = 1
    /\ log[3].m = "write_push_pop"
    /\ log[3].segment = "static" /\ log[3].current_file = "B"
    /\ cw.label_counter = 2

\* C14: function_name is the name given by the last write_function, and
\* the empty name before the first; write_function writes the symbol of
\* the function first; a label written after a return, or after a change
\* of module, carries the name of the function declared last.  From the
\* current state no arithmetic command, push, pop or call changes it.
C14_FunctionNameFrame ==
    /\ cw.function_name = Declared(Len(log))
    /\ \A i \in DOMAIN log :
           /\ log[i].m = "write_function" => cw.text[log[i].lo] = Lbl(log[i].fn_name)
           /\ log[i].m = "write_label" =>
                  Defined(log[i]) = {Declared(i - 1) \o "$" \o log[i].label}
    /\ \A command \in ARITHMETIC_COMMANDS :
           writer_arithmetic(cw, command).function_name = cw.function_name
    /\ \A command \in {C_PUSH, C_POP}, segment \in DOMAIN SEGMENT_MAP, index \in 0 .. MaxIndex :
           write_push_pop(cw, command, segment, index).function_name = cw.function_name
    /\ \A call \in CallCalls : write_call(cw, call[1], call[2]).function_name = cw.function_name

\* function A.f declared under module A, a return, and under module B a
\* label, which is A.f$LOOP.
C14_Witness ==
    /\ Len(log) = 3
    /\ log[1].m = "write_function" /\ log[1].fn_name = "A.f"
    /\ log[2].m = "write_return"
    /\ log[3].m = "write_label"
    /\ cw.current_file = "B"
    /\ cw.function_name = "A.f"
    /\ Defined(log[3]) = {"A.f$LOOP"}

(***************************************************************************)
(* Properties of the executed code of call, function, push and pop.        *)
(***************************************************************************)
\* C15: after the code of call A.f n, run from stack pointer s, the cells
\* s .. s+4 hold the address of the return label and the caller's LCL, ARG,
\* THIS and THAT, SP = s + 5, ARG = s - n, LCL = s + 5, THIS and THAT and
\* every other cell are as before, and execution is at the entry of A.f;
\* the code ends with the jump to A.f and then the definition of the
\* return label, whose address is that of the instruction after the jump.
C15_CallPostState ==
    (ex.at = "ran" /\ ex.kind = "call") =>
        LET code == SelectSeq(ex.text, LAMBDA line : line.op # "//")
            last == Len(code)
        IN  /\ ex.m.PC = ex.entry
            /\ ex.entry # ex.return_address
            /\ Peek(ex.m.RAM, SP0) = ex.return_address
            /\ \A r \in 1 .. 4 : Peek(ex.m.RAM, SP0 + r) = Peek(ex.m0.RAM, r)
            /\ SP1 = SP0 + 5
            /\ Peek(ex.m.RAM, 2) = SP0 - ex.n_args
            /\ Peek(ex.m.RAM, 1) = SP0 + 5
            /\ \A r \in 3 .. 4 : Peek(ex.m.RAM, r) = Peek(ex.m0.RAM, r)
            /\ OthersUnchanged({1, 2} \cup (SP0 .. (SP0 + 4)))
            /\ code[last].op = "L"
            /\ code[last - 1] = Cx("0;JMP")
            /\ code[last - 2] = At("A.f")
            /\ code[1] = At(code[last].sym)
            /\ \A i \in 1 .. (last - 1) : code[i].op # "L"

\* A call with two arguments on the stack has reached the callee.
C15_Witness ==
    /\ ex.at = "ran"
    /\ ex.kind = "call"
    /\ ex.n_args = 2
    /\ SP0 = StackBase + 2
    /\ Peek(ex.m.RAM, 2) = StackBase
    /\ Peek(ex.m.RAM, SP0 + 1) = 300

\* n times the instructions of push constant 0.
RECURSIVE ZeroPushes(_)
ZeroPushes(n) ==
    IF n = 0 THEN <<>>
    ELSE << AtN(0), Cx("D=A"), At("SP"), Cx("A=M"), Cx("M=D"), At("SP"), Cx("M=M+1") >>
         \o ZeroPushes(n - 1)

\* C16: the code of function A.f n is the definition of the label A.f
\* followed by n times the instructions of push constant 0 and nothing
\* else; run from stack pointer s it writes 0 to the cells s .. s+n-1,
\* leaves SP = s + n and changes no other cell; for n = 0 it is the label
\* alone and changes nothing.
C16_FunctionDeclaration ==
    (ex.at = "ran" /\ ex.kind = "function") =>
        /\ SelectSeq(ex.text, LAMBDA line : line.op # "//")
               = << Lbl("A.f") >> \o ZeroPushes(ex.n_vars)
        /\ SP1 = SP0 + ex.n_vars
        /\ \A a \in SP0 .. (SP0 + ex.n_vars - 1) : Peek(ex.m.RAM, a) = 0
        /\ OthersUnchanged(SP0 .. (SP0 + ex.n_vars - 1))
        /\ ex.n_vars = 0 => ex.m.RAM = ex.m0.RAM

\* A function with two locals was entered on a stack of one value, over
\* cells that held other values.
C16_Witness ==
    /\ ex.at = "ran"
    /\ ex.kind = "function"
    /\ ex.n_vars = 2
    /\ SP0 = StackBase + 1
    /\ Peek(ex.m0.RAM, SP0) # 0
    /\ Peek(ex.m0.RAM, SP0 + 1) # 0
    /\ Peek(ex.m.RAM, SP0 + 1) = 0

\* The cell a segment and an index name on machine m: the base register
\* plus the index, cell 5 plus the index for temp, and the registers THIS
\* and THAT for pointer 0 and 1.
Cell(segment, index, m) ==
    CASE segment = "local" -> Peek(m.RAM, 1) + index
      [] segment = "argument" -> Peek(m.RAM, 2) + index
      [] segment = "this" -> Peek(m.RAM, 3) + index
      [] segment = "that" -> Peek(m.RAM, 4) + index
      [] segment = "temp" -> 5 + index
      [] segment = "pointer" -> IF index = 0 THEN 3 ELSE 4

\* C17: a push stores at the old stack top the index itself for constant
\* and else the content of the cell the segment and index name, adds 1 to
\* SP and changes no other cell; a pop stores the value at SP - 1 in the
\* cell the segment and index name, subtracts 1 from SP and changes no
\* other cell but R13, also when the base register points into the stack.
C17_SegmentAddressing ==
    (ex.at = "ran" /\ ex.kind = "push-pop" /\ ex.segment # "static") =>
        IF ex.command = C_PUSH
        THEN /\ Peek(ex.m.RAM, SP0) =
                    (IF ex.segment = "constant" THEN ex.index
                     ELSE Peek(ex.m0.RAM, Cell(ex.segment, ex.index, ex.m0)))
             /\ SP1 = SP0 + 1
             /\ OthersUnchanged({SP0})
        ELSE /\ Peek(ex.m.RAM, Cell(ex.segment, ex.index, ex.m0)) = Peek(ex.m0.RAM, SP0 - 1)
             /\ SP1 = SP0 - 1
             /\ OthersUnchanged({Cell(ex.segment, ex.index, ex.m0), 13})

\* local 1 was pushed from a cell that held a value of its own.
C17_Witness ==
    /\ ex.at = "ran"
    /\ ex.kind = "push-pop"
    /\ ex.command = C_PUSH
    /\ ex.segment = "local"
    /\ ex.index = 1
    /\ Peek(ex.m0.RAM, 1) = 300
    /\ Peek(ex.m.RAM, SP0) = Peek(ex.m0.RAM, 301)
    /\ Peek(ex.m0.RAM, 301) # Peek(ex.m0.RAM, 300)

\* The write to the stack-top cell and the increment of SP.
PushEnd == << At("SP"), Cx("A=M"), Cx("M=D"), At("SP"), Cx("M=M+1") >>

\* The decrement of SP and the read of the popped value.
PopStart == << At("SP"), Cx("AM=M-1"), Cx("D=M") >>

Instructions(text) == SelectSeq(text, LAMBDA line : line.op # "//")

\* C18, as stated: the code of every push ends with the write to the
\* stack-top cell and the increment of SP, and the code of every pop, of
\* local, argument, this, that, temp, pointer and static, begins with the
\* decrement of SP and the read of the popped value.
C18_AsStated ==
    (ex.at = "ran" /\ ex.kind = "push-pop") =>
        LET code == Instructions(ex.text)
        IN  IF ex.command = C_PUSH
            THEN /\ Len(code) >= 5
                 /\ SubSeq(code, Len(code) - 4, Len(code)) = PushEnd
            ELSE /\ Len(code) >= 3
                 /\ SubSeq(code, 1, 3) = PopStart

\* C18, amended: the code of every push ends with the write to the
\* stack-top cell and the increment of SP.  The code of a pop of temp,
\* pointer or static begins with the decrement of SP and the read of the
\* popped value and ends with the store to the destination.  The code of a
\* pop of local, argument, this or that first puts the destination address,
\* index plus base register, in R13, then decrements SP and reads the
\* popped value, and ends with the store through R13.
C18_PushPopOrdering ==
    (ex.at = "ran" /\ ex.kind = "push-pop") =>
        LET code == Instructions(ex.text)
            register == CASE ex.segment = "local" -> "LCL"
                          [] ex.segment = "argument" -> "ARG"
                          [] ex.segment = "this" -> "THIS"
                          [] ex.segment = "that" -> "THAT"
                          [] OTHER -> ""
        IN  IF ex.command = C_PUSH
            THEN /\ Len(code) >= 5
                 /\ SubSeq(code, Len(code) - 4, Len(code)) = PushEnd
            ELSE IF ex.segment \in {"temp", "pointer", "static"}
            THEN /\ Len(code) = 5
                 /\ SubSeq(code, 1, 3) = PopStart
                 /\ code[4].op = "A"
                 /\ code[5] = Cx("M=D")
            ELSE /\ Len(code) = 12
                 /\ SubSeq(code, 1, 6) = << AtN(ex.index), Cx("D=A"), At(register), Cx("D=D+M"),
                                            At("R13"), Cx("M=D") >>
                 /\ SubSeq(code, 7, 9) = PopStart
                 /\ SubSeq(code, 10, 12) = << At("R13"), Cx("A=M"), Cx("M=D") >>

\* argument 1 was popped: its code starts with the address computation.
C18_Witness ==
    /\ ex.at = "ran"
    /\ ex.kind = "push-pop"
    /\ ex.command = C_POP
    /\ ex.segment = "argument"
    /\ ex.index = 1
    /\ Instructions(ex.text)[1] = AtN(1)
    /\ Peek(ex.m.RAM, 401) = Peek(ex.m0.RAM, SP0 - 1)

(***************************************************************************)
(* Properties of the cursor of parser.py's Parser.                         *)
(***************************************************************************)
\* A command line: some piece before the first "//" is no blank.
IsCommandLine(line) ==
    \E i \in DOMAIN line :
        /\ line[i] \notin {" ", "//"}
        /\ \A j \in 1 .. i : line[j] # "//"

\* The indexes of the command lines of the file after the first pos lines.
Remaining(pos) == {i \in (pos + 1) .. Len(ps.self.file) : IsCommandLine(ps.self.file[i])}

\* C19: has_more_commands() returns True exactly when a command line
\* remains after the read position; an advance() made where
\* has_more_commands() returned True sets current_command to the next
\* command line, without its comment and trimmed, and never to None.
C19_CursorProtocol ==
    /\ ps.returned.op = "has_more_commands" =>
           ps.returned.more = (Remaining(ps.self.pos) # {})
    /\ (ps.returned.op = "advance" /\ ps.returned.had_more) =>
           /\ ps.self.current_command # <<>>
           /\ Remaining(ps.returned.from) # {}
           /\ LET next == CHOOSE i \in Remaining(ps.returned.from) :
                              \A k \in Remaining(ps.returned.from) : i <= k
              IN  ps.self.current_command =
                      << strip(partition_head(ps.self.file[next])) >>

====
